---- MODULE Spec2Model ----
(***************************************************************************)
(* StudySphere: the timed quiz page (quiz state, countdown interval,       *)
(* submission, scoring, results view and attempt recording).               *)
(*                                                                         *)
(* Times are milliseconds as returned by Date.now(); question and option   *)
(* indexes are 0-based as in the JavaScript source.                        *)
(***************************************************************************)
EXTENDS Integers, Sequences, FiniteSets, TLC

VARIABLES
    passages,        \* localStorage 'studysphere.passages.v1' (parsed)
    page,            \* document lifecycle: "loading", "ready", "redirecting", "left"
    pc,              \* "idle", or "confirm" while submitQuiz is blocked inside confirm()
    now,             \* the value Date.now() returns
    currentPassage,  \* let currentPassage (the id of the passage, NoPassage for null/undefined)
    startTime,       \* let startTime (0 for null)
    timerInterval,   \* let timerInterval (0 for null, else the id setInterval returned)
    timeLimit,       \* let timeLimit, in seconds
    userAnswers,     \* let userAnswers: question index -> option index
    timers,          \* the browser's live intervals: id -> earliest time of the next callback
    nextTimerId,     \* the id the next setInterval call returns
    redirectAt,      \* due time of the setTimeout that redirects to subjects.html (0: none)
    timeRemaining,   \* the seconds last written to #time-remaining
    modalShown,      \* #results-modal has class 'show'
    results,         \* the last value returned by calculateScore
    resultsView,     \* #score-percentage, #score-fraction, #time-taken, #results-breakdown
    toasts,          \* the toast messages shown so far
    currentUser,     \* auth.currentUser
    recordCount,     \* number of auth.recordQuizAttempt calls made so far
    lastRecord,      \* the arguments of the latest auth.recordQuizAttempt call
    saveThrew,       \* whether the last auth.recordQuizAttempt call threw
    scoreCalls,      \* number of calculateScore/showResults runs so far
    autoSubmits,     \* number of submitQuiz(true) calls since startTime was last set
    authUser,        \* authManager.currentUser (its uid, NoUser for null)
    userRole,        \* authManager.userRole (NoRole for null)
    collection,      \* the documents of the Firestore collection 'passages'
    attempts,        \* the documents of the Firestore collection 'attempts'
    inFlight,        \* the getAttemptsForUser call that awaits getDocs (NoQuery: none)
    lastCall,        \* the latest repository call: arguments, outcome, backend and UI calls
    formLoaded,      \* the add-passage page has run its DOMContentLoaded handler
    form,            \* #passage-form: the field values and the .question-item elements
    draft,           \* localStorage 'studysphere.draft.v1'
    debounce,        \* per input, the due time of its debounce timeout (0: none pending)
    detached,        \* due times of the debounce timeouts of inputs removed from the page
    createAnother,   \* due times of the timeouts savePassage set for its confirm()
    notice,          \* the latest toast shown on the add-passage page
    burst,           \* draft writes made by timeouts since the last 'input' event
    savedClean,      \* savePassage succeeded and the user has not edited since
    pasteBlocks,     \* the question blocks #paste-textarea was composed of (<<>>: free text)
    pasteText,       \* the value of #paste-textarea
    parsed,          \* the value parseQuestionText returned for it
    roleCache,       \* localStorage 'userRole:<uid>', per uid
    roleLoads,       \* the loadUserRole calls that await getIdTokenResult or getDoc
    signingOut,      \* the signOut() call that awaits signOut(auth)
    signedOut,       \* the uids whose signOut() has completed and who have not signed in since
    isNavigating,    \* router.isNavigating
    currentRoute,    \* router.currentRoute
    mainContent,     \* the partial written into <main>
    location,        \* window.location: pathname and search
    navigation,      \* the navigateToPath call that awaits loadPartial or initializePage
    requested,       \* the path of the latest navigation asked for
    lastInit         \* the page initialiser that ran last

vars == <<passages, page, pc, now, currentPassage, startTime, timerInterval,
          timeLimit, userAnswers, timers, nextTimerId, redirectAt,
          timeRemaining, modalShown, results, resultsView, toasts,
          currentUser, recordCount, lastRecord, saveThrew, scoreCalls,
          autoSubmits, authUser, userRole, collection, attempts, inFlight,
          lastCall, formLoaded, form, draft, debounce, detached, createAnother,
          notice, burst, savedClean, pasteBlocks, pasteText, parsed, roleCache,
          roleLoads, signingOut, signedOut, isNavigating, currentRoute,
          mainContent, location, navigation, requested, lastInit>>

\* the variables of the quiz page alone
quizVars == <<page, pc, currentPassage, startTime, timerInterval, timeLimit,
              userAnswers, timers, nextTimerId, redirectAt, timeRemaining,
              modalShown, results, resultsView, currentUser, recordCount,
              lastRecord, saveThrew, scoreCalls, autoSubmits>>

\* the variables of the passage and attempt repositories
repoVars == <<authUser, userRole, collection, attempts, inFlight, lastCall>>

\* the variables of the add-passage page
formVars == <<formLoaded, form, draft, debounce, detached, createAnother,
              notice, burst, savedClean>>

\* the variables of the paste dialog
parseVars == <<pasteBlocks, pasteText, parsed>>

\* the variables of the role loader
roleVars == <<roleCache, roleLoads, signingOut, signedOut>>

\* the variables of the router
routerVars == <<isNavigating, currentRoute, mainContent, location, navigation,
                requested, lastInit>>

\* the variables of the paste dialog, the role loader and the router
shellVars == <<parseVars, roleVars, routerVars>>

\* the variables the quiz page never touches
notQuiz == <<repoVars, formVars, shellVars>>

----------------------------------------------------------------------------
(* Bounds of the model *)

MaxSubmits == 2      \* submissions (calculateScore runs) explored per page load
MaxTimers == 3       \* setInterval calls explored per page load
MaxQuestions == 3    \* questions per passage in the scoring specification
MaxDocs == 2         \* documents of the collection 'passages' (ids 1..MaxDocs)
MaxAttempts == 2     \* documents of the collection 'attempts' (ids 1..MaxAttempts)
MaxFormQuestions == 1    \* .question-item elements on the add-passage form
MaxSaved == 1        \* passages savePassage stores per exploration
MaxLines == 5        \* lines of a free text pasted into #paste-textarea
MaxLoads == 2          \* loadUserRole calls in flight at once
MaxBlocks == 2       \* well-formed question blocks of a pasted text

\* the clock readings explored
Instants == {0, 1500, 60000, 61000}

----------------------------------------------------------------------------
(* Program constants *)

NumOptions == 4          \* options per question
SecondsPerMinute == 60   \* timeLimit = currentPassage.timeLimit * 60
MsPerSecond == 1000      \* Math.floor((Date.now() - startTime) / 1000)
TickMs == 1000           \* setInterval(..., 1000)
RedirectMs == 2000       \* setTimeout(..., 2000)

NoPassage == "none"
NoUser == "none"
NotAnswered == "Not answered"
TimeExpired == "Time expired! Quiz submitted automatically."
PassageNotFound == "Passage not found"
NoPassageSpecified == "No passage specified"

EmptyMap == [i \in {} |-> 0]

NoResults == [correct |-> 0, total |-> 0, percentage |-> 0, timeElapsed |-> 0,
              breakdown |-> <<>>]

NoAttempt == [passageId |-> NoPassage, score |-> 0, timeElapsed |-> 0,
              totalQuestions |-> 0]

NoView == [percentage |-> -1, fraction |-> <<0, 0>>, timeTaken |-> <<0, 0>>,
           breakdown |-> <<>>]

Max(a, b) == IF a >= b THEN a ELSE b

\* Math.round(x) for x = n/d >= 0: the nearest integer, halves rounded up
Round(n, d) == (2 * n + d) \div (2 * d)

OptionText(o) == <<"A", "B", "C", "D">>[o + 1]

\* A stored passage.  answerIndex[i] is questions[i].answerIndex.
Passage(id, minutes, answers) ==
    [id |-> id, timeLimit |-> minutes,
     answerIndex |-> [i \in 0..(Len(answers) - 1) |-> answers[i + 1]]]

\* the passages cached by startQuiz before the quiz page is opened
StoredPassages == {Passage("p1", 1, <<1, 0>>), Passage("p2", 1, <<1>>)}

\* the values of the 'passage' URL parameter explored
PassageIdInputs == {"p1", "p2", "missing", NoPassage}

\* the options the user clicks
OptionInputs == {0, 1}

Users == {NoUser, "u1"}

\* passages.find(p => p.id === passageId)
Find(store, id) == IF \E p \in store : p.id = id
                   THEN CHOOSE p \in store : p.id = id
                   ELSE [id |-> NoPassage, timeLimit |-> 0, answerIndex |-> EmptyMap]

NumQuestions(p) == Cardinality(DOMAIN p.answerIndex)

\* Object.keys(userAnswers).length
Answered(a) == Cardinality(DOMAIN a)

----------------------------------------------------------------------------
(* calculateScore *)

\* the forEach loop of calculateScore over questions k..total-1:
\* returns <<correct, breakdown>>
RECURSIVE ScoreLoop(_, _, _, _, _)
ScoreLoop(p, answers, k, correct, breakdown) ==
    IF k >= NumQuestions(p) THEN <<correct, breakdown>>
    ELSE LET answered == k \in DOMAIN answers
             correctAnswer == p.answerIndex[k]
             isCorrect == answered /\ answers[k] = correctAnswer
             item == [question |-> k,
                      userAnswer |-> IF answered THEN OptionText(answers[k])
                                     ELSE NotAnswered,
                      correctAnswer |-> OptionText(correctAnswer),
                      isCorrect |-> isCorrect]
         IN ScoreLoop(p, answers, k + 1,
                      IF isCorrect THEN correct + 1 ELSE correct,
                      Append(breakdown, item))

\* calculateScore with the percentage truncated instead of rounded
calculateScore_floor(p, answers, t, st) ==
    LET loop == ScoreLoop(p, answers, 0, 0, <<>>)
        total == NumQuestions(p)
    IN [correct |-> loop[1],
        total |-> total,
        percentage |-> (loop[1] * 100) \div total,
        timeElapsed |-> (t - st) \div MsPerSecond,
        breakdown |-> loop[2]]

calculateScore(p, answers, t, st) ==
    LET loop == ScoreLoop(p, answers, 0, 0, <<>>)
        total == NumQuestions(p)
    IN [correct |-> loop[1],
        total |-> total,
        percentage |-> Round(loop[1] * 100, total),
        timeElapsed |-> (t - st) \div MsPerSecond,
        breakdown |-> loop[2]]

----------------------------------------------------------------------------
(* timers *)

\* clearInterval(id)
clearInterval(ts, id) == [i \in (DOMAIN ts) \ {id} |-> ts[i]]

\* setInterval(cb, 1000) returning id
setInterval(ts, id) == [i \in (DOMAIN ts) \cup {id} |->
                           IF i = id THEN now + TickMs ELSE ts[i]]

\* startTimer(), given the live intervals ts and the time limit tl in force
startTimer(ts, tl) ==
    /\ nextTimerId <= MaxTimers
    /\ timeRemaining' = tl
    /\ timerInterval' = nextTimerId
    /\ timers' = setInterval(ts, nextTimerId)
    /\ nextTimerId' = nextTimerId + 1

----------------------------------------------------------------------------
(* Constants of the repositories *)

NoRole == "none"
AdminRequired == "Admin privileges required"
AuthRequired == "Authentication required"
BackendError == "backend error"        \* the error a rejected Firestore call carries
NoError == "none"
DefaultLimit == 50                     \* limitCount = 50

\* an absent (undefined) option or argument
Omitted == "omitted"
NoSubject == ""
NoDifficulty == ""
NoText == <<>>

\* the arguments and options of a repository call, absent ones at their
\* 'undefined' value
NoArgs == [id |-> 0, subject |-> NoSubject, difficulty |-> NoDifficulty,
           publishedOnly |-> Omitted, limitCount |-> 0,
           orderByField |-> "createdAt", term |-> NoText,
           isPublished |-> Omitted, category |-> "", startDate |-> 0,
           endDate |-> 0]

NoQuery == [uid |-> NoUser, args |-> NoArgs]

NoCall == [op |-> "none", args |-> NoArgs, caller |-> NoUser, admin |-> FALSE,
           error |-> NoError, value |-> <<>>, backend |-> <<>>, ui |-> <<>>]

(* The add-passage page: constants *)

DebounceMs == 1000        \* debounce(saveDraft, 1000)
CreateAnotherMs == 1000   \* setTimeout(..., 1000) at the end of savePassage

\* JSON null, and the value localStorage.getItem returns for a missing key
JsonNull == [json |-> "null"]

\* what is stored under DRAFT_KEY: nothing, a text JSON.parse rejects, or a
\* text JSON.parse accepts (held as the value it parses to)
Stored(kind, data) == [kind |-> kind, data |-> data]
NoDraft == Stored("absent", JsonNull)
Unparseable == Stored("unparseable", JsonNull)

Blank == " "               \* a text of white space only
Undefined == "undefined"   \* what a template literal prints for undefined

NoOptions == <<"", "", "", "">>
NoneChecked == -1

\* the .question-item addQuestion appends
EmptyQuestion == [text |-> "", options |-> NoOptions, checked |-> NoneChecked]

\* #passage-form and #questions-container as the markup declares them
StaticForm == [title |-> "", source |-> "", subject |-> "", category |-> "",
               difficulty |-> "", timeLimit |-> "", tags |-> "",
               passageText |-> "", questions |-> <<>>]

\* the inputs that carry a debounced 'input' listener: #title, and per question
\* its textarea and its radio buttons
TitleInput == [question |-> 0, input |-> "title", index |-> 0]
TextInput(k) == [question |-> k, input |-> "question-text", index |-> 0]
RadioInput(k, i) == [question |-> k, input |-> "radio", index |-> i]
RadioIndexes == {1}        \* the radio buttons the user clicks
AutosaveInputs == {TitleInput} \cup {TextInput(k) : k \in 1..MaxFormQuestions}
                     \cup {RadioInput(k, i) : k \in 1..MaxFormQuestions, i \in RadioIndexes}

NoTimeouts == [input \in AutosaveInputs |-> 0]
NoNotice == "none"
NoBurst == [writes |-> -1, last |-> 0, gapped |-> FALSE]

\* the add-passage page is not open and no draft is stored
FormIdle ==
    /\ formLoaded = FALSE
    /\ form = StaticForm
    /\ draft = NoDraft
    /\ debounce = NoTimeouts
    /\ detached = <<>>
    /\ createAnother = <<>>
    /\ notice = NoNotice
    /\ burst = NoBurst
    /\ savedClean = FALSE

\* no identity is signed in and no repository call has been made
RepoIdle ==
    /\ authUser = NoUser
    /\ userRole = NoRole
    /\ collection = {}
    /\ attempts = {}
    /\ inFlight = NoQuery
    /\ lastCall = NoCall

----------------------------------------------------------------------------
(* The paste dialog, the role loader and the router at rest *)

NotParsed == [done |-> FALSE, questions |-> <<>>]

\* the paste dialog is closed
ParseIdle ==
    /\ pasteBlocks = <<>>
    /\ pasteText = <<>>
    /\ parsed = NotParsed

\* the identities that sign in while the role loader is observed
RoleUsers == {"admin1", "s1"}

RoleTtlMs == 600000   \* expires: now + 10 * 60 * 1000

\* no entry under 'userRole:<uid>'
NoEntry == [role |-> "none", expires |-> 0]

\* no signOut() is awaiting signOut(auth)
NoSignOut == [active |-> FALSE, uid |-> "none", calledBack |-> FALSE]

\* no role is cached, no role load and no signOut is in flight
RoleIdle ==
    /\ roleCache = [user \in RoleUsers |-> NoEntry]
    /\ roleLoads = <<>>
    /\ signingOut = NoSignOut
    /\ signedOut = {}

\* a path: its pathname and the passage id of its search part (0: no search)
Route(pathname) == [pathname |-> pathname, passage |-> 0]
QuizPath(passageId) == [pathname |-> "/quiz", passage |-> passageId]

NoRoute == Route("null")
NoNavigation == [path |-> NoRoute, pushState |-> FALSE, stage |-> "none"]
NoContent == "none"
NoPageInit == [module |-> "none", passage |-> 0]

\* the router has navigated nowhere
RouterIdle ==
    /\ isNavigating = FALSE
    /\ currentRoute = NoRoute
    /\ mainContent = NoContent
    /\ location = Route("/")
    /\ navigation = NoNavigation
    /\ requested = NoRoute
    /\ lastInit = NoPageInit

\* the head of navigateToPath(path, pushState), up to await loadPartial
navigateToPath(path, pushState) ==
    IF isNavigating
    THEN UNCHANGED <<isNavigating, navigation>>
    ELSE /\ isNavigating' = TRUE
         /\ navigation' = [path |-> path, pushState |-> pushState, stage |-> "partial"]

\* nothing is pasted, no role is loading, the router is at rest
ShellIdle == ParseIdle /\ RoleIdle /\ RouterIdle

----------------------------------------------------------------------------
(* the initial state: the quiz page's script has run, DOMContentLoaded is next *)

Init ==
    /\ passages = StoredPassages
    /\ page = "loading"
    /\ pc = "idle"
    /\ now = 0
    /\ currentPassage = NoPassage
    /\ startTime = 0
    /\ timerInterval = 0
    /\ timeLimit = 0
    /\ userAnswers = EmptyMap
    /\ timers = EmptyMap
    /\ nextTimerId = 1
    /\ redirectAt = 0
    /\ timeRemaining = 0
    /\ modalShown = FALSE
    /\ results = NoResults
    /\ resultsView = NoView
    /\ toasts = <<>>
    /\ currentUser \in Users
    /\ recordCount = 0
    /\ lastRecord = NoAttempt
    /\ saveThrew = FALSE
    /\ scoreCalls = 0
    /\ autoSubmits = 0
    /\ RepoIdle
    /\ FormIdle
    /\ ShellIdle

\* time passes
Advance ==
    /\ page \in {"ready", "redirecting"}
    /\ \E t \in Instants : t > now /\ now' = t
    /\ UNCHANGED <<passages, page, pc, currentPassage, startTime, timerInterval,
                   timeLimit, userAnswers, timers, nextTimerId, redirectAt,
                   timeRemaining, modalShown, results, resultsView, toasts,
                   currentUser, recordCount, lastRecord, saveThrew, scoreCalls,
                   autoSubmits>>
    /\ UNCHANGED notQuiz

\* the DOMContentLoaded handler and loadQuiz(passageId)
LoadQuiz(passageId) ==
    /\ page = "loading"
    /\ IF passageId = NoPassage \/ Find(passages, passageId).id = NoPassage
       THEN /\ toasts' = Append(toasts, IF passageId = NoPassage
                                        THEN NoPassageSpecified
                                        ELSE PassageNotFound)
            /\ redirectAt' = now + RedirectMs
            /\ page' = "redirecting"
            /\ UNCHANGED <<currentPassage, startTime, timerInterval, timeLimit,
                           userAnswers, timers, nextTimerId, timeRemaining,
                           autoSubmits>>
       ELSE /\ currentPassage' = passageId
            /\ timeLimit' = Find(passages, passageId).timeLimit * SecondsPerMinute
            /\ startTime' = now
            /\ userAnswers' = EmptyMap
            /\ startTimer(timers, timeLimit')
            /\ autoSubmits' = 0
            /\ page' = "ready"
            /\ UNCHANGED <<toasts, redirectAt>>
    /\ UNCHANGED <<passages, pc, now, modalShown, results, resultsView,
                   currentUser, recordCount, lastRecord, saveThrew, scoreCalls>>
    /\ UNCHANGED notQuiz

\* the setTimeout callback of the not-found paths: window.location.href = 'subjects.html'
Redirect ==
    /\ page = "redirecting"
    /\ now >= redirectAt
    /\ page' = "left"
    /\ timers' = EmptyMap
    /\ UNCHANGED <<passages, pc, now, currentPassage, startTime, timerInterval,
                   timeLimit, userAnswers, nextTimerId, redirectAt,
                   timeRemaining, modalShown, results, resultsView, toasts,
                   currentUser, recordCount, lastRecord, saveThrew, scoreCalls,
                   autoSubmits>>
    /\ UNCHANGED notQuiz

----------------------------------------------------------------------------
(* submission *)

\* what showResults writes to the results view
View(r) == [percentage |-> r.percentage,
            fraction |-> <<r.correct, r.total>>,
            timeTaken |-> <<r.timeElapsed \div SecondsPerMinute,
                            r.timeElapsed % SecondsPerMinute>>,
            breakdown |-> r.breakdown]

\* the arguments of auth.recordQuizAttempt(currentPassage.id, score, timeElapsed,
\* totalQuestions)
Attempt(r) == [passageId |-> currentPassage,
               score |-> r.correct,
               timeElapsed |-> r.timeElapsed,
               totalQuestions |-> r.total]

\* showResults recording the attempt without looking at auth.currentUser
showResults_noUserCheck(r, autoSubmit, threw) ==
    /\ resultsView' = View(r)
    /\ modalShown' = TRUE
    /\ toasts' = IF autoSubmit THEN Append(toasts, TimeExpired) ELSE toasts
    /\ recordCount' = recordCount + 1
    /\ lastRecord' = Attempt(r)
    /\ saveThrew' = threw

\* showResults recording the attempt before it fills the results view, so that
\* a throwing save leaves the view untouched
showResults_saveFirst(r, autoSubmit, threw) ==
    /\ IF currentUser # NoUser
       THEN /\ recordCount' = recordCount + 1
            /\ lastRecord' = Attempt(r)
            /\ saveThrew' = threw
       ELSE UNCHANGED <<recordCount, lastRecord, saveThrew>>
    /\ IF currentUser # NoUser /\ threw
       THEN UNCHANGED <<resultsView, modalShown, toasts>>
       ELSE /\ resultsView' = View(r)
            /\ modalShown' = TRUE
            /\ toasts' = IF autoSubmit THEN Append(toasts, TimeExpired) ELSE toasts

\* showResults recording the percentage as the attempt's score
showResults_percentage(r, autoSubmit, threw) ==
    /\ resultsView' = View(r)
    /\ modalShown' = TRUE
    /\ toasts' = IF autoSubmit THEN Append(toasts, TimeExpired) ELSE toasts
    /\ IF currentUser # NoUser
       THEN /\ recordCount' = recordCount + 1
            /\ lastRecord' = [Attempt(r) EXCEPT !.score = r.percentage]
            /\ saveThrew' = threw
       ELSE UNCHANGED <<recordCount, lastRecord, saveThrew>>

\* showResults(results, autoSubmit); threw: auth.recordQuizAttempt throws
showResults(r, autoSubmit, threw) ==
    /\ resultsView' = View(r)
    /\ modalShown' = TRUE
    /\ toasts' = IF autoSubmit THEN Append(toasts, TimeExpired) ELSE toasts
    /\ IF currentUser # NoUser
       THEN /\ recordCount' = recordCount + 1
            /\ lastRecord' = Attempt(r)
            /\ saveThrew' = threw
       ELSE UNCHANGED <<recordCount, lastRecord, saveThrew>>

\* the tail of submitQuiz: calculateScore() and showResults(results, autoSubmit)
scoreAndShow(autoSubmit, threw) ==
    /\ scoreCalls < MaxSubmits
    /\ scoreCalls' = scoreCalls + 1
    /\ LET r == calculateScore(Find(passages, currentPassage), userAnswers,
                               now, startTime)
       IN /\ results' = r
          /\ showResults(r, autoSubmit, threw)

\* submitQuiz scoring a partial manual submission without asking
submitQuiz_noConfirm(autoSubmit, threw, ts) ==
    /\ timers' = clearInterval(ts, timerInterval)
    /\ pc' = "idle"
    /\ scoreAndShow(autoSubmit, threw)

\* submitQuiz(autoSubmit) up to the confirm() call or to its end; ts: the live intervals
submitQuiz(autoSubmit, threw, ts) ==
    /\ timers' = clearInterval(ts, timerInterval)
    /\ IF /\ ~autoSubmit
          /\ Answered(userAnswers) < NumQuestions(Find(passages, currentPassage))
       THEN /\ pc' = "confirm"
            /\ UNCHANGED <<results, resultsView, modalShown, toasts,
                           recordCount, lastRecord, saveThrew, scoreCalls>>
       ELSE /\ pc' = "idle"
            /\ scoreAndShow(autoSubmit, threw)

\* submitQuiz from the point where confirm() returns
confirmReturns(confirmSubmit, threw) ==
    /\ pc' = "idle"
    /\ IF ~confirmSubmit
       THEN /\ startTimer(timers, timeLimit)
            /\ UNCHANGED <<results, resultsView, modalShown, toasts,
                           recordCount, lastRecord, saveThrew, scoreCalls>>
       ELSE /\ scoreAndShow(FALSE, threw)
            /\ UNCHANGED <<timers, timerInterval, nextTimerId, timeRemaining>>

----------------------------------------------------------------------------
(* handlers *)

\* onchange of a rendered radio input: selectAnswer(questionIndex, answerIndex)
SelectAnswer(questionIndex, answerIndex) ==
    /\ page = "ready"
    /\ pc = "idle"
    /\ questionIndex \in DOMAIN Find(passages, currentPassage).answerIndex
    /\ userAnswers' = [i \in (DOMAIN userAnswers) \cup {questionIndex} |->
                          IF i = questionIndex THEN answerIndex ELSE userAnswers[i]]
    /\ UNCHANGED <<passages, page, pc, now, currentPassage, startTime,
                   timerInterval, timeLimit, timers, nextTimerId, redirectAt,
                   timeRemaining, modalShown, results, resultsView, toasts,
                   currentUser, recordCount, lastRecord, saveThrew, scoreCalls,
                   autoSubmits>>
    /\ UNCHANGED notQuiz

\* the submit button and the Ctrl+Enter shortcut: submitQuiz()
SubmitQuiz(threw) ==
    /\ page = "ready"
    /\ pc = "idle"
    /\ submitQuiz(FALSE, threw, timers)
    /\ UNCHANGED <<passages, page, now, currentPassage, startTime, timerInterval,
                   timeLimit, userAnswers, nextTimerId, redirectAt,
                   timeRemaining, currentUser, autoSubmits>>
    /\ UNCHANGED notQuiz

\* the user answers the confirm() dialog of submitQuiz
Confirm(confirmSubmit, threw) ==
    /\ page = "ready"
    /\ pc = "confirm"
    /\ confirmReturns(confirmSubmit, threw)
    /\ UNCHANGED <<passages, page, now, currentPassage, startTime, timeLimit,
                   userAnswers, redirectAt, currentUser, autoSubmits>>
    /\ UNCHANGED notQuiz

\* the callback of a live interval runs
Tick(id, threw) ==
    /\ page = "ready"
    /\ pc = "idle"
    /\ id \in DOMAIN timers
    /\ timers[id] <= now
    /\ LET elapsed == (now - startTime) \div MsPerSecond
           remaining == Max(0, timeLimit - elapsed)
           rescheduled == [timers EXCEPT ![id] = now + TickMs]
       IN /\ timeRemaining' = remaining
          /\ IF remaining = 0
             THEN /\ autoSubmits' = autoSubmits + 1
                  /\ submitQuiz(TRUE, threw, rescheduled)
             ELSE /\ timers' = rescheduled
                  /\ UNCHANGED <<pc, results, resultsView, modalShown, toasts,
                                 recordCount, lastRecord, saveThrew, scoreCalls,
                                 autoSubmits>>
    /\ UNCHANGED <<passages, page, now, currentPassage, startTime, timerInterval,
                   timeLimit, userAnswers, nextTimerId, redirectAt, currentUser>>
    /\ UNCHANGED notQuiz

\* the 'Retake' button of the results modal: retakeQuiz()
RetakeQuiz ==
    /\ page = "ready"
    /\ pc = "idle"
    /\ modalShown
    /\ modalShown' = FALSE
    /\ userAnswers' = EmptyMap
    /\ startTime' = now
    /\ startTimer(timers, timeLimit)
    /\ autoSubmits' = 0
    /\ UNCHANGED <<passages, page, pc, now, currentPassage, timeLimit,
                   redirectAt, results, resultsView, toasts, currentUser,
                   recordCount, lastRecord, saveThrew, scoreCalls>>
    /\ UNCHANGED notQuiz

\* the beforeunload handler: is the leave-page confirmation raised
beforeunload == timerInterval # 0 /\ Answered(userAnswers) > 0

\* the 'Back' button: goBack(); stay: the user cancels a raised beforeunload prompt
GoBack(stay) ==
    /\ page = "ready"
    /\ pc = "idle"
    /\ IF beforeunload /\ stay
       THEN /\ timers' = clearInterval(timers, timerInterval)
            /\ page' = page
       ELSE /\ timers' = EmptyMap
            /\ page' = "left"
    /\ UNCHANGED <<passages, pc, now, currentPassage, startTime, timerInterval,
                   timeLimit, userAnswers, nextTimerId, redirectAt,
                   timeRemaining, modalShown, results, resultsView, toasts,
                   currentUser, recordCount, lastRecord, saveThrew, scoreCalls,
                   autoSubmits>>
    /\ UNCHANGED notQuiz

Next ==
    \/ Advance
    \/ \E id \in PassageIdInputs : LoadQuiz(id)
    \/ Redirect
    \/ \E q \in 0..(MaxQuestions - 1), o \in OptionInputs : SelectAnswer(q, o)
    \/ \E threw \in BOOLEAN : SubmitQuiz(threw)
    \/ \E c \in BOOLEAN, threw \in BOOLEAN : Confirm(c, threw)
    \/ \E id \in 1..MaxTimers, threw \in BOOLEAN : Tick(id, threw)
    \/ RetakeQuiz
    \/ \E stay \in BOOLEAN : GoBack(stay)

Spec == Init /\ [][Next]_vars

----------------------------------------------------------------------------
(* The scoring specification: calculateScore applied to every passage of up *)
(* to MaxQuestions questions and every answers map.                         *)

ScorePassages ==
    {Passage("p1", 1, a) :
        a \in UNION {[1..n -> 0..(NumOptions - 1)] : n \in 1..MaxQuestions}}

AnswerMaps(p) ==
    UNION {[S -> 0..(NumOptions - 1)] : S \in SUBSET (DOMAIN p.answerIndex)}

\* the state after loadQuiz("p1") and any number of selectAnswer calls
ScoreInit ==
    /\ passages \in {{p} : p \in ScorePassages}
    /\ page = "ready"
    /\ pc = "idle"
    /\ now = 500
    /\ currentPassage = "p1"
    /\ startTime = 0
    /\ timerInterval = 1
    /\ timeLimit = SecondsPerMinute
    /\ userAnswers \in AnswerMaps(Find(passages, "p1"))
    /\ timers = [i \in {1} |-> TickMs]
    /\ nextTimerId = 2
    /\ redirectAt = 0
    /\ timeRemaining = SecondsPerMinute
    /\ modalShown = FALSE
    /\ results = NoResults
    /\ resultsView = NoView
    /\ toasts = <<>>
    /\ currentUser = "u1"
    /\ recordCount = 0
    /\ lastRecord = NoAttempt
    /\ saveThrew = FALSE
    /\ scoreCalls = 0
    /\ autoSubmits = 0
    /\ RepoIdle
    /\ FormIdle
    /\ ShellIdle

\* const results = calculateScore()
Score ==
    /\ scoreCalls = 0
    /\ scoreCalls' = 1
    /\ results' = calculateScore(Find(passages, currentPassage), userAnswers,
                                 now, startTime)
    /\ UNCHANGED <<passages, page, pc, now, currentPassage, startTime,
                   timerInterval, timeLimit, userAnswers, timers, nextTimerId,
                   redirectAt, timeRemaining, modalShown, resultsView, toasts,
                   currentUser, recordCount, lastRecord, saveThrew, autoSubmits>>
    /\ UNCHANGED notQuiz

ScoreNext == Score

SpecScore == ScoreInit /\ [][ScoreNext]_vars

----------------------------------------------------------------------------
(* passages.js: the passage repository over the Firestore collection       *)
(* 'passages', the subjects page's startQuiz and the local passage list    *)

Subjects == {"Biology", "English"}
DocIds == 1..MaxDocs

\* the identities that sign in, and the role the role load resolves for each
Identities == {"admin1", "s1", "s2"}
RoleOf(user) == IF user = "admin1" THEN "admin" ELSE "student"

\* texts are sequences of characters
Title(id) == IF id % 2 = 1 THEN <<"C", "e", "l", "l">> ELSE <<"T", "i", "d", "e">>
Content(id) == IF id % 2 = 1 THEN <<"D", "N", "A">> ELSE <<"c", "e", "l", "l", "s">>
Difficulty(id) == IF id % 2 = 1 THEN "Easy" ELSE "Hard"
Category(id) == IF id % 2 = 1 THEN "Genetics" ELSE ""

\* the search terms explored
SearchTerms == {NoText, <<"c", "e", "l", "l">>, <<"D", "N", "A">>}

\* a document of the collection 'passages' with its id; createdAt grows with
\* the id
Doc(id, subject, isPublished) ==
    [id |-> id, subject |-> subject, isPublished |-> isPublished,
     title |-> Title(id), content |-> Content(id),
     difficulty |-> Difficulty(id), category |-> Category(id),
     createdAt |-> id]

\* String.prototype.toLowerCase on one character
LowerChar(c) ==
    CASE c = "C" -> "c" [] c = "D" -> "d" [] c = "N" -> "n" [] c = "A" -> "a"
      [] c = "T" -> "t" [] c = "I" -> "i" [] c = "Q" -> "q" [] OTHER -> c

toLowerCase(text) == [i \in 1..Len(text) |-> LowerChar(text[i])]

\* String.prototype.includes
includes(text, part) ==
    \E i \in 1..(Len(text) + 1) :
        /\ i + Len(part) - 1 <= Len(text)
        /\ SubSeq(text, i, i + Len(part) - 1) = part

\* authManager.isAdmin()
isAdmin == userRole = "admin"

\* authManager.isAuthenticated()
isAuthenticated == authUser # NoUser

\* the record of a repository call made now
Call(op, args, error, value, backend, ui) ==
    [op |-> op, args |-> args, caller |-> authUser, admin |-> isAdmin,
     error |-> error, value |-> value, backend |-> backend, ui |-> ui]

\* getDoc(doc(db, 'passages', passageId)): the documents with that id
DocsWithId(id) == {d \in collection : d.id = id}

\* the ids addDoc can still give to a new document
FreeIds == {i \in DocIds : DocsWithId(i) = {}}

\* docs ordered by orderBy(field): createdAt descending, or title ascending
\* (documents with equal titles in id order)
Before(d, e, field) ==
    IF field = "createdAt" THEN d.createdAt >= e.createdAt
    ELSE \/ d.id % 2 > e.id % 2
         \/ d.id % 2 = e.id % 2 /\ d.id <= e.id

RECURSIVE Ordered(_, _)
Ordered(docs, field) ==
    IF docs = {} THEN <<>>
    ELSE LET first == CHOOSE d \in docs : \A e \in docs : Before(d, e, field)
         IN <<first>> \o Ordered(docs \ {first}, field)

\* limit(limitCount), applied only when limitCount is given
Limited(seq, limitCount) ==
    IF limitCount = 0 \/ limitCount >= Len(seq) THEN seq
    ELSE SubSeq(seq, 1, limitCount)

\* the query getPassages builds from its options, evaluated by getDocs
getDocs(options) ==
    LET publishedOnly == IF options.publishedOnly = Omitted THEN ~isAdmin
                         ELSE options.publishedOnly = "true"
        matching == {d \in collection :
                        /\ options.subject # NoSubject => d.subject = options.subject
                        /\ options.difficulty # NoDifficulty =>
                               d.difficulty = options.difficulty
                        /\ publishedOnly => d.isPublished}
    IN Limited(Ordered(matching, options.orderByField), options.limitCount)

\* the options of getPassages explored
PassageOptions ==
    {[NoArgs EXCEPT !.subject = s, !.difficulty = d, !.publishedOnly = p,
                    !.limitCount = l, !.orderByField = o] :
        s \in Subjects \cup {NoSubject}, d \in {NoDifficulty, "Easy"},
        p \in {Omitted, "true", "false"}, l \in {0, 1},
        o \in {"createdAt", "title"}}

\* the options of searchPassages explored
SearchOptions ==
    {[NoArgs EXCEPT !.subject = s, !.publishedOnly = p] :
        s \in Subjects \cup {NoSubject}, p \in {Omitted, "true", "false"}}

\* the passageData of createPassage and the updates of updatePassage explored:
\* a subject and the isPublished flag, either of them possibly absent
PassageData ==
    {[subject |-> s, isPublished |-> p] :
        s \in Subjects \cup {NoSubject}, p \in {Omitted, "true", "false"}}

\* the outcome of a repository function: the collection it leaves and its call record
Outcome(coll, call) == [coll |-> coll, call |-> call]

\* createPassage(passageData); fails: addDoc rejects
createPassage(passageData, fails) ==
    LET args == [NoArgs EXCEPT !.subject = passageData.subject,
                               !.isPublished = passageData.isPublished]
    IN IF ~isAdmin
       THEN Outcome(collection,
                    Call("createPassage", args, AdminRequired, <<>>, <<>>, <<>>))
       ELSE IF fails
       THEN Outcome(collection,
                    Call("createPassage", args, BackendError, <<>>, <<"addDoc">>,
                         <<"showLoader", "hideLoader",
                           "toast: Failed to create passage">>))
       ELSE LET id == CHOOSE i \in FreeIds : \A j \in FreeIds : i <= j
                d == Doc(id, passageData.subject, passageData.isPublished = "true")
            IN Outcome(collection \cup {d},
                       Call("createPassage", args, NoError, <<d>>, <<"addDoc">>,
                            <<"showLoader", "hideLoader",
                              "toast: Passage created successfully">>))

\* the document d after updateDoc(ref, updates)
Updated(d, updates) ==
    [d EXCEPT !.subject = IF updates.subject = NoSubject THEN @
                          ELSE updates.subject,
              !.isPublished = IF updates.isPublished = Omitted THEN @
                              ELSE updates.isPublished = "true"]

\* updatePassage(passageId, updates); fails: updateDoc rejects, as it does
\* when the document does not exist
updatePassage(passageId, updates, fails) ==
    LET args == [NoArgs EXCEPT !.id = passageId, !.subject = updates.subject,
                               !.isPublished = updates.isPublished]
    IN IF ~isAdmin
       THEN Outcome(collection,
                    Call("updatePassage", args, AdminRequired, <<>>, <<>>, <<>>))
       ELSE IF fails \/ DocsWithId(passageId) = {}
       THEN Outcome(collection,
                    Call("updatePassage", args, BackendError, <<>>, <<"updateDoc">>,
                         <<"showLoader", "hideLoader",
                           "toast: Failed to update passage">>))
       ELSE Outcome({IF d.id = passageId THEN Updated(d, updates) ELSE d :
                        d \in collection},
                    Call("updatePassage", args, NoError, <<>>, <<"updateDoc">>,
                         <<"showLoader", "hideLoader",
                           "toast: Passage updated successfully">>))

\* deletePassage leaving out the admin check
deletePassage_noCheck(passageId, fails) ==
    LET args == [NoArgs EXCEPT !.id = passageId]
    IN IF fails
       THEN Outcome(collection,
                    Call("deletePassage", args, BackendError, <<>>, <<"deleteDoc">>,
                         <<"showLoader", "hideLoader",
                           "toast: Failed to delete passage">>))
       ELSE Outcome(collection \ DocsWithId(passageId),
                    Call("deletePassage", args, NoError, <<>>, <<"deleteDoc">>,
                         <<"showLoader", "hideLoader",
                           "toast: Passage deleted successfully">>))

\* deletePassage(passageId); fails: deleteDoc rejects
deletePassage(passageId, fails) ==
    LET args == [NoArgs EXCEPT !.id = passageId]
    IN IF ~isAdmin
       THEN Outcome(collection,
                    Call("deletePassage", args, AdminRequired, <<>>, <<>>, <<>>))
       ELSE IF fails
       THEN Outcome(collection,
                    Call("deletePassage", args, BackendError, <<>>, <<"deleteDoc">>,
                         <<"showLoader", "hideLoader",
                           "toast: Failed to delete passage">>))
       ELSE Outcome(collection \ DocsWithId(passageId),
                    Call("deletePassage", args, NoError, <<>>, <<"deleteDoc">>,
                         <<"showLoader", "hideLoader",
                           "toast: Passage deleted successfully">>))

\* togglePassagePublished(passageId, isPublished); fails: updateDoc rejects
togglePassagePublished(passageId, isPublished, fails) ==
    LET args == [NoArgs EXCEPT !.id = passageId,
                               !.isPublished = IF isPublished THEN "true"
                                               ELSE "false"]
        inner == updatePassage(passageId,
                               [subject |-> NoSubject,
                                isPublished |-> args.isPublished], fails)
    IN IF ~isAdmin
       THEN Outcome(collection,
                    Call("togglePassagePublished", args, AdminRequired, <<>>,
                         <<>>, <<>>))
       ELSE IF inner.call.error # NoError
       THEN Outcome(inner.coll,
                    Call("togglePassagePublished", args, inner.call.error, <<>>,
                         inner.call.backend, inner.call.ui))
       ELSE Outcome(inner.coll,
                    Call("togglePassagePublished", args, NoError, <<>>,
                         inner.call.backend,
                         Append(inner.call.ui,
                                IF isPublished
                                THEN "toast: Passage published successfully"
                                ELSE "toast: Passage unpublished successfully")))

\* getPassage(passageId); fails: getDoc rejects.  The value is <<>> for null.
getPassage(passageId, fails) ==
    LET args == [NoArgs EXCEPT !.id = passageId]
    IN IF fails
       THEN Call("getPassage", args, BackendError, <<>>, <<"getDoc">>,
                 <<"toast: Failed to load passage">>)
       ELSE Call("getPassage", args, NoError,
                 Ordered(DocsWithId(passageId), "createdAt"), <<"getDoc">>, <<>>)

\* getPassages(options); fails: getDocs rejects
getPassages(options, fails) ==
    IF fails
    THEN Call("getPassages", options, BackendError, <<>>, <<"getDocs">>,
              <<"toast: Failed to load passages">>)
    ELSE Call("getPassages", options, NoError, getDocs(options), <<"getDocs">>,
              <<>>)

\* getPublishedPassagesBySubject(subject)
getPublishedPassagesBySubject(subject, fails) ==
    LET options == [NoArgs EXCEPT !.subject = subject, !.publishedOnly = "true",
                                  !.orderByField = "title"]
    IN [getPassages(options, fails) EXCEPT !.op = "getPublishedPassagesBySubject"]

\* searchPassages(searchTerm, options)
searchPassages(searchTerm, options, fails) ==
    LET inner == getPassages(options, fails)
        args == [options EXCEPT !.term = searchTerm]
        searchLower == toLowerCase(searchTerm)
        Matches(passage) ==
            \/ includes(toLowerCase(passage.title), searchLower)
            \/ includes(toLowerCase(passage.content), searchLower)
    IN IF inner.error # NoError
       THEN [inner EXCEPT !.op = "searchPassages", !.args = args,
                          !.ui = Append(@, "toast: Search failed")]
       ELSE [inner EXCEPT !.op = "searchPassages", !.args = args,
                          !.value = IF searchTerm = NoText THEN @
                                    ELSE SelectSeq(@, Matches)]

\* the operations of the repository that write, and those that read
WriteOps == {"createPassage", "updatePassage", "deletePassage",
             "togglePassagePublished"}
ReadOps == {"getPassage", "getPassages", "getPublishedPassagesBySubject",
            "searchPassages"}

\* loadPassages() of the subject page: the passages of localStorage with
\* subject currentSubject and, if a category is selected, that category,
\* sorted by 'newest' or by 'title'
loadPassages(store, currentSubject, selectedCategory, sortBy) ==
    LET subjectPassages == {p \in store : p.subject = currentSubject}
        shown == IF selectedCategory # ""
                 THEN {p \in subjectPassages : p.category = selectedCategory}
                 ELSE subjectPassages
    IN Ordered(shown, IF sortBy = "newest" THEN "createdAt" ELSE "title")

----------------------------------------------------------------------------
(* actions of the repository specification *)

\* no repository call is awaiting its caller
Idle == lastCall = NoCall

\* the onAuthStateChanged callback with its role load, run to its end with
\* nothing cached: user signs in, or nobody is signed in any more. The load
\* sets 'admin' for an admin claim and reads the profile document only if no
\* role is set, so a role left by the identity before stays
AuthStateChanged(user) ==
    /\ Idle
    /\ authUser' = user
    /\ userRole' = IF user = NoUser THEN NoRole
                   ELSE IF RoleOf(user) = "admin" THEN "admin"
                   ELSE IF userRole # NoRole THEN userRole
                   ELSE RoleOf(user)
    /\ UNCHANGED <<collection, attempts, inFlight, lastCall>>
    /\ UNCHANGED <<passages, now, toasts, quizVars, formVars, shellVars>>

\* the caller has taken the outcome of the latest call
Return ==
    /\ lastCall # NoCall
    /\ lastCall' = NoCall
    /\ UNCHANGED <<authUser, userRole, collection, attempts, inFlight>>
    /\ UNCHANGED <<passages, now, toasts, quizVars, formVars, shellVars>>

\* a write operation of the repository runs
Write(outcome) ==
    /\ collection' = outcome.coll
    /\ lastCall' = outcome.call
    /\ UNCHANGED <<authUser, userRole, attempts, inFlight>>
    /\ UNCHANGED <<passages, now, toasts, quizVars, formVars, shellVars>>

\* a read operation of the repository runs
Read(call) ==
    /\ lastCall' = call
    /\ UNCHANGED <<authUser, userRole, collection, attempts, inFlight>>
    /\ UNCHANGED <<passages, now, toasts, quizVars, formVars, shellVars>>

CreatePassage(passageData, fails) ==
    /\ Idle
    /\ (isAdmin /\ ~fails) => FreeIds # {}
    /\ Write(createPassage(passageData, fails))

UpdatePassage(passageId, updates, fails) ==
    /\ Idle
    /\ Write(updatePassage(passageId, updates, fails))

DeletePassage(passageId, fails) ==
    /\ Idle
    /\ Write(deletePassage(passageId, fails))

TogglePassagePublished(passageId, isPublished, fails) ==
    /\ Idle
    /\ Write(togglePassagePublished(passageId, isPublished, fails))

GetPassage(passageId, fails) ==
    /\ Idle
    /\ Read(getPassage(passageId, fails))

GetPassages(options, fails) ==
    /\ Idle
    /\ Read(getPassages(options, fails))

GetPublishedPassagesBySubject(subject, fails) ==
    /\ Idle
    /\ Read(getPublishedPassagesBySubject(subject, fails))

SearchPassages(searchTerm, options, fails) ==
    /\ Idle
    /\ Read(searchPassages(searchTerm, options, fails))

\* { ...passage, text: passage.text || passage.content || '' }
Normalized(passage) ==
    [k \in (DOMAIN passage) \cup {"text"} |->
        IF k = "text" THEN passage.content ELSE passage[k]]

\* window.startQuiz(passageId) of the subjects page: the passage fetched by
\* getPassage replaces or joins the cached passages of localStorage (the
\* navigation to the quiz page follows)
StartQuiz(passageId, fails) ==
    LET call == getPassage(passageId, fails)
    IN /\ Idle
       /\ lastCall' = [call EXCEPT !.op = "startQuiz",
                          !.ui = IF call.error # NoError
                                 THEN Append(@, "toast: Failed to start quiz")
                                 ELSE IF call.value = <<>>
                                 THEN <<"toast: Passage not found">>
                                 ELSE @]
       /\ passages' = IF call.error = NoError /\ call.value # <<>>
                      THEN {p \in passages : p.id # passageId}
                               \cup {Normalized(call.value[1])}
                      ELSE passages
       /\ IF call.error = NoError /\ call.value # <<>>
          THEN /\ requested' = QuizPath(passageId)
               /\ navigateToPath(QuizPath(passageId), TRUE)
          ELSE UNCHANGED <<isNavigating, navigation, requested>>
       /\ UNCHANGED <<currentRoute, mainContent, location, lastInit>>
       /\ UNCHANGED <<authUser, userRole, collection, attempts, inFlight>>
       /\ UNCHANGED <<now, toasts, quizVars, formVars, parseVars, roleVars>>

\* the subject page lists the cached passages: loadPassages()
LoadPassages(currentSubject, selectedCategory, sortBy) ==
    /\ Idle
    /\ lastCall' = Call("loadPassages",
                        [NoArgs EXCEPT !.subject = currentSubject,
                                       !.category = selectedCategory,
                                       !.orderByField = sortBy],
                        NoError,
                        loadPassages(passages, currentSubject, selectedCategory,
                                     sortBy),
                        <<>>, <<>>)
    /\ UNCHANGED <<authUser, userRole, collection, attempts, inFlight>>
    /\ UNCHANGED <<passages, now, toasts, quizVars, formVars, shellVars>>

\* the quiz page's variables before the quiz page is opened
QuizUnopened ==
    /\ page = "loading"
    /\ pc = "idle"
    /\ now = 0
    /\ currentPassage = NoPassage
    /\ startTime = 0
    /\ timerInterval = 0
    /\ timeLimit = 0
    /\ userAnswers = EmptyMap
    /\ timers = EmptyMap
    /\ nextTimerId = 1
    /\ redirectAt = 0
    /\ timeRemaining = 0
    /\ modalShown = FALSE
    /\ results = NoResults
    /\ resultsView = NoView
    /\ toasts = <<>>
    /\ currentUser = NoUser
    /\ recordCount = 0
    /\ lastRecord = NoAttempt
    /\ saveThrew = FALSE
    /\ scoreCalls = 0
    /\ autoSubmits = 0

\* the collection holds any documents, the local cache is empty, nobody is
\* signed in
RepoInit ==
    /\ QuizUnopened
    /\ passages = {}
    /\ authUser = NoUser
    /\ userRole = NoRole
    /\ collection \in {docs \in SUBSET {Doc(i, s, p) : i \in DocIds, s \in Subjects,
                                                       p \in BOOLEAN} :
                          \A d, e \in docs : d.id = e.id => d = e}
    /\ attempts = {}
    /\ inFlight = NoQuery
    /\ lastCall = NoCall
    /\ FormIdle
    /\ ShellIdle

RepoNext ==
    \/ Return
    \/ \E user \in Identities \cup {NoUser} : AuthStateChanged(user)
    \/ \E data \in PassageData, fails \in BOOLEAN : CreatePassage(data, fails)
    \/ \E id \in DocIds, updates \in PassageData, fails \in BOOLEAN :
          UpdatePassage(id, updates, fails)
    \/ \E id \in DocIds, fails \in BOOLEAN : DeletePassage(id, fails)
    \/ \E id \in DocIds, isPublished \in BOOLEAN, fails \in BOOLEAN :
          TogglePassagePublished(id, isPublished, fails)
    \/ \E id \in DocIds, fails \in BOOLEAN : GetPassage(id, fails)
    \/ \E options \in PassageOptions, fails \in BOOLEAN : GetPassages(options, fails)
    \/ \E s \in Subjects, fails \in BOOLEAN : GetPublishedPassagesBySubject(s, fails)
    \/ \E term \in SearchTerms, options \in SearchOptions, fails \in BOOLEAN :
          SearchPassages(term, options, fails)

SpecRepo == RepoInit /\ [][RepoNext]_vars

\* the subjects page caching passages and the subject page listing the cache,
\* beside the remote listing of the same subject
CacheNext ==
    \/ Return
    \/ \E id \in DocIds, fails \in BOOLEAN : StartQuiz(id, fails)
    \/ \E s \in Subjects, c \in {"", "Genetics"}, sortBy \in {"newest", "title"} :
          LoadPassages(s, c, sortBy)
    \/ \E s \in Subjects, fails \in BOOLEAN : GetPublishedPassagesBySubject(s, fails)

SpecCache == RepoInit /\ [][CacheNext]_vars

----------------------------------------------------------------------------
(* attempts.js: the attempt repository over the Firestore collection       *)
(* 'attempts'                                                              *)

AttemptIds == 1..MaxAttempts

\* the attemptData of saveAttempt explored: the score is given in tenths
AttemptData == {[subject |-> s, scoreTenths |-> 665] : s \in Subjects}

\* the options of getAttemptsForUser explored (0: the option is absent)
AttemptOptions ==
    {[NoArgs EXCEPT !.subject = s, !.startDate = a, !.endDate = b,
                    !.limitCount = l] :
        s \in {NoSubject, "Biology"}, a \in {0, 2}, b \in {0, 1}, l \in {0, 1}}

\* the ids addDoc can still give to a new attempt
FreeAttemptIds == {i \in AttemptIds : \A a \in attempts : a.id # i}

\* saveAttempt(attemptData); fails: addDoc rejects.  The server timestamp
\* attemptedAt grows with the id.
saveAttempt(attemptData, fails) ==
    LET args == [NoArgs EXCEPT !.subject = attemptData.subject]
    IN IF ~isAuthenticated
       THEN Outcome(attempts,
                    Call("saveAttempt", args, AuthRequired, <<>>, <<>>, <<>>))
       ELSE IF fails
       THEN Outcome(attempts,
                    Call("saveAttempt", args, BackendError, <<>>, <<"addDoc">>,
                         <<"toast: Failed to save quiz results">>))
       ELSE LET id == CHOOSE i \in FreeAttemptIds : \A j \in FreeAttemptIds : i <= j
                a == [id |-> id, userId |-> authUser,
                      subject |-> attemptData.subject,
                      score |-> Round(attemptData.scoreTenths, 10),
                      attemptedAt |-> id]
            IN Outcome(attempts \cup {a},
                       Call("saveAttempt", args, NoError, <<a>>, <<"addDoc">>,
                            <<"toast: Quiz completed! Results saved.">>))

\* attempts.sort((a, b) => b.attemptedAt - a.attemptedAt)
RECURSIVE NewestFirst(_)
NewestFirst(as) ==
    IF as = {} THEN <<>>
    ELSE LET first == CHOOSE a \in as : \A b \in as : a.attemptedAt >= b.attemptedAt
         IN <<first>> \o NewestFirst(as \ {first})

\* what getAttemptsForUser makes of the snapshot of its query for uid: the
\* client-side subject and date filters, the sort and the slice
attemptsOf(uid, options) ==
    LET found == {a \in attempts : a.userId = uid}
        ofSubject == IF options.subject # NoSubject
                     THEN {a \in found : a.subject = options.subject}
                     ELSE found
        inRange == IF options.startDate # 0 \/ options.endDate # 0
                   THEN {a \in ofSubject :
                            /\ ~(options.startDate # 0
                                   /\ a.attemptedAt < options.startDate)
                            /\ ~(options.endDate # 0
                                   /\ a.attemptedAt > options.endDate)}
                   ELSE ofSubject
        sorted == NewestFirst(inRange)
        limitCount == IF options.limitCount = 0 THEN DefaultLimit
                      ELSE options.limitCount
    IN SubSeq(sorted, 1, IF limitCount < Len(sorted) THEN limitCount
                         ELSE Len(sorted))

SaveAttempt(attemptData, fails) ==
    /\ Idle
    /\ (isAuthenticated /\ ~fails) => FreeAttemptIds # {}
    /\ LET outcome == saveAttempt(attemptData, fails)
       IN /\ attempts' = outcome.coll
          /\ lastCall' = outcome.call
    /\ UNCHANGED <<authUser, userRole, collection, inFlight>>
    /\ UNCHANGED <<passages, now, toasts, quizVars, formVars, shellVars>>

\* getAttemptsForUser(options) up to its await of getDocs: the query is built
\* for the uid signed in now
GetAttemptsForUser(options) ==
    /\ Idle
    /\ inFlight = NoQuery
    /\ IF ~isAuthenticated
       THEN /\ lastCall' = Call("getAttemptsForUser", options, AuthRequired,
                                <<>>, <<>>, <<>>)
            /\ UNCHANGED inFlight
       ELSE /\ inFlight' = [uid |-> authUser, args |-> options]
            /\ UNCHANGED lastCall
    /\ UNCHANGED <<authUser, userRole, collection, attempts>>
    /\ UNCHANGED <<passages, now, toasts, quizVars, formVars, shellVars>>

\* getDocs settles and getAttemptsForUser runs to its end; fails: getDocs rejects
GetDocsSettles(fails) ==
    /\ Idle
    /\ inFlight # NoQuery
    /\ inFlight' = NoQuery
    /\ lastCall' = IF fails
                   THEN Call("getAttemptsForUser", inFlight.args, BackendError,
                             <<>>, <<"getDocs">>,
                             <<"toast: Failed to load quiz history">>)
                   ELSE Call("getAttemptsForUser", inFlight.args, NoError,
                             attemptsOf(inFlight.uid, inFlight.args),
                             <<"getDocs">>, <<>>)
    /\ UNCHANGED <<authUser, userRole, collection, attempts>>
    /\ UNCHANGED <<passages, now, toasts, quizVars, formVars, shellVars>>

AttemptsInit ==
    /\ QuizUnopened
    /\ passages = {}
    /\ RepoIdle
    /\ FormIdle
    /\ ShellIdle

AttemptsNext ==
    \/ Return
    \/ \E user \in Identities \cup {NoUser} : AuthStateChanged(user)
    \/ \E data \in AttemptData, fails \in BOOLEAN : SaveAttempt(data, fails)
    \/ \E options \in AttemptOptions : GetAttemptsForUser(options)
    \/ \E fails \in BOOLEAN : GetDocsSettles(fails)

SpecAttempts == AttemptsInit /\ [][AttemptsNext]_vars

----------------------------------------------------------------------------
(* The add-passage page: draft autosave, draft restore and savePassage.     *)
(* The form is explored with the title, the question text and the radio     *)
(* buttons edited by the user; the other fields are filled from a restored  *)
(* draft. #category stays '' in the explored forms, so the 100 ms timeout   *)
(* of populateForm that assigns it again changes nothing and is left out.   *)
(* localStorage is taken to have room: setItem does not throw.              *)

\* String.prototype.trim over the texts explored
trim(s) == IF s = Blank THEN "" ELSE s

\* parseInt over the values of #timeLimit explored
parseInt(s) == IF s = "5" THEN 5 ELSE 0

\* formData.tags.split(',').map(tag => tag.trim()).filter(tag => tag)
Tags(s) == IF trim(s) = "" THEN <<>> ELSE <<trim(s)>>

\* the condition under which collectFormData keeps a question
Complete(item) ==
    /\ item.text # ""
    /\ \A i \in 1..NumOptions : trim(item.options[i]) # ""
    /\ item.checked >= 0

collectFormData(f) ==
    LET kept == SelectSeq(f.questions, Complete)
    IN  [title |-> f.title, source |-> f.source, subject |-> f.subject,
         category |-> f.category, difficulty |-> f.difficulty,
         timeLimit |-> f.timeLimit, tags |-> f.tags,
         passageText |-> f.passageText,
         questions |-> [k \in 1..Len(kept) |->
                          [q |-> kept[k].text, options |-> kept[k].options,
                           answerIndex |-> kept[k].checked]]]

\* the value DRAFT_KEY holds after saveDraft: JSON.stringify of the collected
\* data, which JSON.parse reads back as the same strings, numbers and arrays
saveDraft(f) == Stored("json", collectFormData(f))

\* formData.<name> || ''
OrEmpty(obj, name) == IF name \in DOMAIN obj THEN obj[name] ELSE ""

\* the .question-item addQuestionWithData builds: it reads questionData.text,
\* questionData.options[index] || '' and questionData.correctIndex
addQuestionWithData(questionData) ==
    [text |-> IF "text" \in DOMAIN questionData THEN questionData.text ELSE Undefined,
     options |-> [i \in 1..NumOptions |->
                    IF i <= Len(questionData.options) THEN questionData.options[i]
                                                       ELSE ""],
     checked |-> IF "correctIndex" \in DOMAIN questionData
                    /\ questionData.correctIndex \in 0..(NumOptions - 1)
                 THEN questionData.correctIndex
                 ELSE NoneChecked]

\* the entries of a questions array ahead of the first null entry
RECURSIVE BeforeNull(_)
BeforeNull(entries) ==
    IF entries = <<>> \/ Head(entries) = JsonNull
    THEN <<>>
    ELSE <<Head(entries)>> \o BeforeNull(Tail(entries))

\* populateForm: the form it leaves and whether it threw. Reading a property
\* of null throws: at once for a null formData, inside addQuestionWithData
\* for a null entry of formData.questions (the container is emptied by then
\* and the entries ahead of the null one are appended)
populateForm(f, formData) ==
    IF formData = JsonNull
    THEN [form |-> f, threw |-> TRUE]
    ELSE LET entries == IF "questions" \in DOMAIN formData
                        THEN formData.questions ELSE <<>>
             built == BeforeNull(entries)
             filled == [f EXCEPT !.title = OrEmpty(formData, "title"),
                                 !.source = OrEmpty(formData, "source"),
                                 !.subject = OrEmpty(formData, "subject"),
                                 !.difficulty = OrEmpty(formData, "difficulty"),
                                 !.timeLimit = OrEmpty(formData, "timeLimit"),
                                 !.tags = OrEmpty(formData, "tags"),
                                 !.passageText = OrEmpty(formData, "passageText")]
         IN  IF Len(entries) = 0
             THEN [form |-> [filled EXCEPT !.questions = <<EmptyQuestion>>],
                   threw |-> FALSE]
             ELSE [form |-> [filled EXCEPT !.questions =
                                [k \in 1..Len(built) |-> addQuestionWithData(built[k])]],
                   threw |-> Len(built) < Len(entries)]

DraftLoaded == "Draft loaded"

\* loadDraft: the form it leaves and the toast it shows
loadDraft(f, stored) ==
    IF stored.kind # "json"
    THEN [form |-> f, notice |-> NoNotice]
    ELSE LET populated == populateForm(f, stored.data)
         IN  [form |-> populated.form,
              notice |-> IF populated.threw THEN NoNotice ELSE DraftLoaded]

validateForm(f) ==
    LET formData == collectFormData(f)
    IN  {e \in {"Title is required", "Subject is required", "Difficulty is required",
                "Valid time limit is required", "Passage text is required",
                "At least one question is required"} :
           \/ e = "Title is required" /\ trim(formData.title) = ""
           \/ e = "Subject is required" /\ formData.subject = ""
           \/ e = "Difficulty is required" /\ formData.difficulty = ""
           \/ e = "Valid time limit is required"
                 /\ (formData.timeLimit = "" \/ parseInt(formData.timeLimit) < 1)
           \/ e = "Passage text is required" /\ trim(formData.passageText) = ""
           \/ e = "At least one question is required" /\ Len(formData.questions) = 0}

\* the passage object savePassage stores
NewPassage(f, random) ==
    LET formData == collectFormData(f)
    IN  [id |-> [prefix |-> "p_", at |-> now, random |-> random],
         title |-> trim(formData.title),
         source |-> trim(formData.source),
         subject |-> formData.subject,
         category |-> IF trim(formData.category) = "" THEN "null"
                                                      ELSE trim(formData.category),
         difficulty |-> formData.difficulty,
         tags |-> Tags(formData.tags),
         text |-> trim(formData.passageText),
         timeLimit |-> parseInt(formData.timeLimit),
         questions |-> formData.questions,
         createdAt |-> now]

\* the form clearForm leaves once its confirm() is accepted: reset() puts
\* back the declared values, the container holds one new empty question
clearForm == [StaticForm EXCEPT !.questions = <<EmptyQuestion>>]

\* the inputs of the questions: they leave the document when the container
\* is emptied, their pending timeouts stay scheduled
QuestionInputs == {input \in AutosaveInputs : input.question > 0}

\* the due times of the pending timeouts of the question inputs
RECURSIVE PendingOf(_)
PendingOf(inputs) ==
    IF inputs = {} THEN <<>>
    ELSE LET input == CHOOSE i \in inputs : TRUE
         IN  (IF debounce[input] # 0 THEN <<debounce[input]>> ELSE <<>>)
                \o PendingOf(inputs \ {input})

\* the ten-character random suffixes explored for passage ids
RandomSuffixes == {"k3f9"}

\* the values typed into #title and into a question's textarea
TitleValues == {"", Blank, "T"}
QuestionTexts == {"", "Q"}

\* a form with every required field filled and one complete question
ValidForm == [StaticForm EXCEPT
                 !.title = "T", !.subject = "Biology", !.difficulty = "Easy",
                 !.timeLimit = "5", !.passageText = "P",
                 !.questions = <<[text |-> "Q", options |-> <<"a", "b", "c", "d">>,
                                  checked |-> 1]>>]

\* a draft object whose questions array holds null
NullQuestionData == [title |-> "T", questions |-> <<JsonNull>>]

\* the values found under DRAFT_KEY when the page is opened: none, a
\* truncated text, the text 'null', an object with a null question, and the
\* draft saveDraft wrote for ValidForm
InitialDrafts == {NoDraft, Unparseable, Stored("json", JsonNull),
                  Stored("json", NullQuestionData), saveDraft(ValidForm)}

\* the clock readings explored on the add-passage page
FormInstants == {0, 500, 1000, 1500, 2000}

\* the executedFunction of debounce for one input: its own timeout is
\* cleared and set again
Debounced(input) == [debounce EXCEPT ![input] = now + DebounceMs]

\* bookkeeping of an 'input' event for the properties
Edited == [writes |-> 0, last |-> now,
           gapped |-> burst.gapped \/ (burst.writes >= 0 /\ now - burst.last >= DebounceMs)]

\* bookkeeping of a draft write made by a timeout
Written == IF burst.writes >= 0 THEN [burst EXCEPT !.writes = @ + 1] ELSE burst

\* DOMContentLoaded: addQuestion, setupAutosave, loadCategories, loadDraft
DOMContentLoaded ==
    /\ ~formLoaded
    /\ LET loaded == loadDraft([form EXCEPT !.questions = <<EmptyQuestion>>], draft)
       IN  /\ form' = loaded.form
           /\ notice' = loaded.notice
    /\ formLoaded' = TRUE
    /\ UNCHANGED <<draft, debounce, detached, createAnother, burst, savedClean>>
    /\ UNCHANGED <<passages, now, toasts, quizVars, repoVars, shellVars>>

\* the user types in #title
InputTitle(value) ==
    /\ formLoaded
    /\ value # form.title
    /\ form' = [form EXCEPT !.title = value]
    /\ debounce' = Debounced(TitleInput)
    /\ burst' = Edited
    /\ savedClean' = FALSE
    /\ UNCHANGED <<formLoaded, draft, detached, createAnother, notice>>
    /\ UNCHANGED <<passages, now, toasts, quizVars, repoVars, shellVars>>

\* the user types in the textarea of question k
InputQuestionText(k, value) ==
    /\ formLoaded
    /\ k \in 1..Len(form.questions)
    /\ value # form.questions[k].text
    /\ form' = [form EXCEPT !.questions[k].text = value]
    /\ debounce' = Debounced(TextInput(k))
    /\ burst' = Edited
    /\ savedClean' = FALSE
    /\ UNCHANGED <<formLoaded, draft, detached, createAnother, notice>>
    /\ UNCHANGED <<passages, now, toasts, quizVars, repoVars, shellVars>>

\* the user clicks radio button i of question k: the 'input' listener
\* schedules an autosave, then onchange runs markCorrectAnswer, which calls
\* saveDraft at once
ClickRadio(k, i) ==
    /\ formLoaded
    /\ k \in 1..Len(form.questions)
    /\ form.questions[k].checked # i
    /\ form' = [form EXCEPT !.questions[k].checked = i]
    /\ debounce' = Debounced(RadioInput(k, i))
    /\ draft' = saveDraft(form')
    /\ burst' = Edited
    /\ savedClean' = FALSE
    /\ UNCHANGED <<formLoaded, detached, createAnother, notice>>
    /\ UNCHANGED <<passages, now, toasts, quizVars, repoVars, shellVars>>

\* the timeout of one input's debounce fires: later() calls saveDraft
DebounceFires(input) ==
    /\ formLoaded
    /\ debounce[input] # 0
    /\ debounce[input] <= now
    /\ debounce' = [debounce EXCEPT ![input] = 0]
    /\ draft' = saveDraft(form)
    /\ burst' = Written
    /\ UNCHANGED <<formLoaded, form, detached, createAnother, notice, savedClean>>
    /\ UNCHANGED <<passages, now, toasts, quizVars, repoVars, shellVars>>

\* the timeout of an input that left the document fires
DetachedFires(n) ==
    /\ formLoaded
    /\ n \in 1..Len(detached)
    /\ detached[n] <= now
    /\ detached' = SubSeq(detached, 1, n - 1) \o SubSeq(detached, n + 1, Len(detached))
    /\ draft' = saveDraft(form)
    /\ burst' = Written
    /\ UNCHANGED <<formLoaded, form, debounce, createAnother, notice, savedClean>>
    /\ UNCHANGED <<passages, now, toasts, quizVars, repoVars, shellVars>>

PleaseFix == "Please fix the following errors"
PassageSaved == "Passage saved successfully!"
FormCleared == "Form cleared"

\* savePassage (Ctrl+S or the save button)
SavePassage(random) ==
    /\ formLoaded
    /\ IF validateForm(form) # {}
       THEN /\ notice' = PleaseFix
            /\ UNCHANGED <<passages, draft, createAnother, burst, savedClean>>
       ELSE /\ Cardinality(passages) < MaxSaved
            /\ passages' = passages \cup {NewPassage(form, random)}
            /\ draft' = NoDraft
            /\ notice' = PassageSaved
            /\ createAnother' = Append(createAnother, now + CreateAnotherMs)
            /\ burst' = NoBurst
            /\ savedClean' = TRUE
    /\ UNCHANGED <<formLoaded, form, debounce, detached>>
    /\ UNCHANGED <<now, toasts, quizVars, repoVars, shellVars>>

\* the timeout savePassage set fires: confirm('... create another passage?')
\* and, when accepted, clearForm with its own confirm()
CreateAnotherFires(another, sure) ==
    /\ formLoaded
    /\ createAnother # <<>>
    /\ Head(createAnother) <= now
    /\ createAnother' = Tail(createAnother)
    /\ IF another /\ sure
       THEN /\ form' = clearForm
            /\ detached' = detached \o PendingOf(QuestionInputs)
            /\ debounce' = [input \in AutosaveInputs |->
                              IF input \in QuestionInputs THEN 0 ELSE debounce[input]]
            /\ draft' = NoDraft
            /\ notice' = FormCleared
            /\ burst' = NoBurst
       ELSE UNCHANGED <<form, detached, debounce, draft, notice, burst>>
    /\ UNCHANGED <<formLoaded, savedClean>>
    /\ UNCHANGED <<passages, now, toasts, quizVars, repoVars, shellVars>>

\* the page is reloaded: the document and its timeouts are discarded,
\* localStorage stays
Reload ==
    /\ formLoaded
    /\ formLoaded' = FALSE
    /\ form' = StaticForm
    /\ debounce' = NoTimeouts
    /\ detached' = <<>>
    /\ createAnother' = <<>>
    /\ notice' = NoNotice
    /\ burst' = NoBurst
    /\ UNCHANGED <<draft, savedClean>>
    /\ UNCHANGED <<passages, now, toasts, quizVars, repoVars, shellVars>>

\* time passes on the add-passage page
FormAdvance ==
    /\ formLoaded
    /\ \E t \in FormInstants : t > now /\ now' = t
    /\ UNCHANGED <<passages, toasts, quizVars, repoVars, formVars, shellVars>>

\* the add-passage page is about to load with any of the explored values
\* under DRAFT_KEY
FormInit ==
    /\ QuizUnopened
    /\ RepoIdle
    /\ passages = {}
    /\ formLoaded = FALSE
    /\ form = StaticForm
    /\ draft \in InitialDrafts
    /\ debounce = NoTimeouts
    /\ detached = <<>>
    /\ createAnother = <<>>
    /\ notice = NoNotice
    /\ burst = NoBurst
    /\ savedClean = FALSE
    /\ ShellIdle

FormNext ==
    \/ DOMContentLoaded
    \/ \E value \in TitleValues : InputTitle(value)
    \/ \E k \in 1..MaxFormQuestions, value \in QuestionTexts : InputQuestionText(k, value)
    \/ \E k \in 1..MaxFormQuestions, i \in RadioIndexes : ClickRadio(k, i)
    \/ \E input \in AutosaveInputs : DebounceFires(input)
    \/ \E n \in DOMAIN detached : DetachedFires(n)
    \/ \E random \in RandomSuffixes : SavePassage(random)
    \/ \E another \in BOOLEAN, sure \in BOOLEAN : CreateAnotherFires(another, sure)
    \/ Reload
    \/ FormAdvance

SpecForm == FormInit /\ [][FormNext]_vars

----------------------------------------------------------------------------
(* The paste dialog of the add-passage page: parseQuestionText.             *)
(* A text is a sequence of characters, "\n" being the line feed.            *)

LineFeed == "\n"
Star == "*"

\* String.prototype.trim on a sequence of characters
RECURSIVE trimStart(_)
trimStart(text) ==
    IF text # <<>> /\ Head(text) = " " THEN trimStart(Tail(text)) ELSE text

RECURSIVE trimEnd(_)
trimEnd(text) ==
    IF text # <<>> /\ text[Len(text)] = " "
    THEN trimEnd(SubSeq(text, 1, Len(text) - 1))
    ELSE text

trimLine(text) == trimEnd(trimStart(text))

\* text.split('\n'): line is the piece collected since the last line feed
RECURSIVE split(_, _)
split(text, line) ==
    IF text = <<>> THEN <<line>>
    ELSE IF Head(text) = LineFeed
         THEN <<line>> \o split(Tail(text), <<>>)
         ELSE split(Tail(text), Append(line, Head(text)))

\* String.prototype.startsWith
startsWith(text, prefix) ==
    Len(text) >= Len(prefix) /\ SubSeq(text, 1, Len(prefix)) = prefix

\* String.prototype.substring(n)
substring(text, n) == SubSeq(text, n + 1, Len(text))

\* replace leaving the text as it is
replace_none(text, c) == text

\* String.prototype.replace(c, ''): the first occurrence of c is removed
RECURSIVE replace(_, _)
replace(text, c) ==
    IF text = <<>> THEN <<>>
    ELSE IF Head(text) = c THEN Tail(text)
         ELSE <<Head(text)>> \o replace(Tail(text), c)

\* 'question:', the prefix a question line has once lower-cased
QuestionPrefix == <<"q", "u", "e", "s", "t", "i", "o", "n", ":">>

\* /^[A-D]\)/.test(line)
OptionLine(line) ==
    Len(line) >= 2 /\ line[1] \in {"A", "B", "C", "D"} /\ line[2] = ")"

\* the for loop of parseQuestionText over the lines left; started: whether
\* currentQuestion is an object (not null)
RECURSIVE ParseLoop(_, _, _, _)
ParseLoop(lines, questions, started, currentQuestion) ==
    IF lines = <<>>
    THEN IF started THEN Append(questions, currentQuestion) ELSE questions
    ELSE LET line == Head(lines)
         IN  IF startsWith(toLowerCase(line), QuestionPrefix)
             THEN ParseLoop(Tail(lines),
                            IF started THEN Append(questions, currentQuestion)
                                       ELSE questions,
                            TRUE,
                            [text |-> trimLine(substring(line, Len(QuestionPrefix))),
                             options |-> <<>>, correctIndex |-> -1])
             ELSE IF started /\ OptionLine(line)
                  THEN LET optionText == trimLine(replace(substring(line, 2), Star))
                           options == Append(currentQuestion.options, optionText)
                       IN  ParseLoop(Tail(lines), questions, TRUE,
                                     [currentQuestion EXCEPT
                                         !.options = options,
                                         !.correctIndex =
                                             IF includes(line, <<Star>>)
                                             THEN Len(options) - 1 ELSE @])
                  ELSE ParseLoop(Tail(lines), questions, started, currentQuestion)

\* the trimmed, non-empty lines of a text
LinesOf(text) ==
    LET pieces == split(text, <<>>)
        trimmed == [i \in 1..Len(pieces) |-> trimLine(pieces[i])]
        NonEmpty(line) == line # <<>>
    IN  SelectSeq(trimmed, NonEmpty)

\* the filter parseQuestionText returns through
Validated(q) == q.text # <<>> /\ Len(q.options) = NumOptions /\ q.correctIndex >= 0

parseQuestionText(text) ==
    SelectSeq(ParseLoop(LinesOf(text), <<>>, FALSE,
                        [text |-> <<>>, options |-> <<>>, correctIndex |-> -1]),
              Validated)

\* the lines pasted texts are made of
QuestionLine == <<"Q", "u", "e", "s", "t", "i", "o", "n", ":", " ", "x">>
PastedLines ==
    {QuestionLine,
     <<"Q", "u", "e", "s", "t", "i", "o", "n", ":">>,
     <<"A", ")", " ", "a">>,
     <<"B", ")", " ", "b", " ", "*">>,
     <<"C", ")">>,
     <<"D", ")", " ", "d", "*">>,
     <<"n", "o", "t", "e">>}

\* lines joined by line feeds
RECURSIVE Join(_)
Join(lines) ==
    IF lines = <<>> THEN <<>>
    ELSE IF Len(lines) = 1 THEN lines[1]
         ELSE lines[1] \o <<LineFeed>> \o Join(Tail(lines))

\* every text of at most MaxLines of the lines above
ArbitraryTexts ==
    {Join(lines) : lines \in UNION {[1..n -> PastedLines] : n \in 0..MaxLines}}

\* a block of one question: a question line, then the lines A) to D), the
\* option at position marked (0-based) carrying the marker; spaced: the lines
\* carry extra white space and the question line is lower-case
OptionLetters == <<"A", "B", "C", "D">>
OptionTexts == <<"a", "b", "c", "d">>
Block(marked, spaced) ==
    <<IF spaced THEN <<" ", "q", "u", "e", "s", "t", "i", "o", "n", ":", " ", " ", "y", " ">>
                ELSE QuestionLine>>
    \o [i \in 1..NumOptions |->
          <<OptionLetters[i], ")", " ", OptionTexts[i]>>
             \o (IF i - 1 = marked THEN <<" ", Star>> ELSE <<>>)
             \o (IF spaced THEN <<" ">> ELSE <<>>)]

\* the question a block stands for
BlockQuestion(marked, spaced) ==
    [text |-> IF spaced THEN <<"y">> ELSE <<"x">>,
     options |-> [i \in 1..NumOptions |-> <<OptionTexts[i]>>],
     correctIndex |-> marked]

BlockChoices == [marked : 0..(NumOptions - 1), spaced : BOOLEAN]

\* the sequences of at most MaxBlocks blocks, with blank lines between them
BlockSeqs == UNION {[1..k -> BlockChoices] : k \in 0..MaxBlocks}

RECURSIVE BlockLines(_)
BlockLines(blocks) ==
    IF blocks = <<>> THEN <<>>
    ELSE Block(blocks[1].marked, blocks[1].spaced) \o <<<<>>>> \o BlockLines(Tail(blocks))

WellFormedText(blocks) == Join(BlockLines(blocks))

\* processPastedQuestions reads the textarea and calls parseQuestionText
ParseQuestionText ==
    /\ ~parsed.done
    /\ parsed' = [done |-> TRUE, questions |-> parseQuestionText(pasteText)]
    /\ UNCHANGED <<pasteBlocks, pasteText>>
    /\ UNCHANGED <<passages, now, toasts, quizVars, repoVars, formVars, roleVars,
                   routerVars>>

\* any text is in the textarea: an arbitrary one, or one composed of
\* well-formed blocks (pasteBlocks names them)
ParseInit ==
    /\ QuizUnopened
    /\ RepoIdle
    /\ FormIdle
    /\ RoleIdle
    /\ RouterIdle
    /\ passages = {}
    /\ \/ pasteBlocks = <<>> /\ pasteText \in ArbitraryTexts
       \/ pasteBlocks \in BlockSeqs /\ pasteText = WellFormedText(pasteBlocks)
    /\ parsed = NotParsed

ParseNext == ParseQuestionText

SpecParse == ParseInit /\ [][ParseNext]_vars

----------------------------------------------------------------------------
(* AuthManager: the auth-state callback, the asynchronous role load with    *)
(* its cache in localStorage, and signOut. updateLastLogin,                 *)
(* updateNavigation and checkAuthRequirement leave the state below alone.   *)

\* where the role of an identity comes from
HasAdminClaim(user) == user = "admin1"     \* token.claims?.admin
DocRole(user) == RoleOf(user)              \* userDoc.data().role || 'student'

\* the role the token claim and the profile document of a user resolve to
ResolvedRole(user) == IF HasAdminClaim(user) THEN "admin" ELSE DocRole(user)

\* the clock readings explored
RoleInstants == {0, 600000}

\* localStorage.setItem(cacheKey, {role, expires: now + 10 * 60 * 1000})
Cached(role, started) == [role |-> role, expires |-> started + RoleTtlMs]

Without(seq, n) == SubSeq(seq, 1, n - 1) \o SubSeq(seq, n + 1, Len(seq))

\* the onAuthStateChanged callback up to its first await: currentUser is
\* set; for a user loadUserRole runs until it returns (a cached role that has
\* not expired) or awaits getIdTokenResult; for null the role is reset
AuthCallback(user) ==
    /\ authUser' = user
    /\ IF user = NoUser
       THEN /\ userRole' = NoRole
            /\ UNCHANGED roleLoads
       ELSE IF roleCache[user] # NoEntry /\ roleCache[user].expires > now
            THEN /\ userRole' = roleCache[user].role
                 /\ UNCHANGED roleLoads
            ELSE /\ Len(roleLoads) < MaxLoads
                 /\ roleLoads' = Append(roleLoads, [key |-> user, started |-> now,
                                                    stage |-> "token", user |-> user])
                 /\ UNCHANGED userRole
    /\ signingOut' = IF user = NoUser /\ signingOut.active
                     THEN [signingOut EXCEPT !.calledBack = TRUE]
                     ELSE signingOut
    /\ signedOut' = signedOut \ {user}
    /\ UNCHANGED <<roleCache, now>>
    /\ UNCHANGED <<collection, attempts, inFlight, lastCall>>
    /\ UNCHANGED <<passages, toasts, quizVars, formVars, parseVars, routerVars>>

\* getIdTokenResult settles for load n: an admin claim sets the role; if no
\* role is set then, the profile document of the user who is current now is
\* requested (reading the uid of null throws and the catch sets 'student');
\* otherwise the role is cached under the key taken when the load began
TokenSettles(n, fails) ==
    /\ n \in DOMAIN roleLoads
    /\ roleLoads[n].stage = "token"
    /\ LET load == roleLoads[n]
           claimed == IF ~fails /\ HasAdminClaim(load.user) THEN "admin" ELSE userRole
       IN  IF claimed # NoRole
           THEN /\ userRole' = claimed
                /\ roleCache' = [roleCache EXCEPT ![load.key] = Cached(claimed, load.started)]
                /\ roleLoads' = Without(roleLoads, n)
           ELSE IF authUser = NoUser
                THEN /\ userRole' = "student"
                     /\ roleCache' = [roleCache EXCEPT
                                         ![load.key] = Cached("student", load.started)]
                     /\ roleLoads' = Without(roleLoads, n)
                ELSE /\ userRole' = NoRole
                     /\ roleLoads' = [roleLoads EXCEPT
                                         ![n] = [load EXCEPT !.stage = "doc",
                                                             !.user = authUser]]
                     /\ UNCHANGED roleCache
    /\ UNCHANGED <<authUser, signingOut, signedOut, now>>
    /\ UNCHANGED <<collection, attempts, inFlight, lastCall>>
    /\ UNCHANGED <<passages, toasts, quizVars, formVars, parseVars, routerVars>>

\* getDoc settles for load n: the role of the document (or 'student' when
\* the read fails) is set and cached
DocSettles(n, fails) ==
    /\ n \in DOMAIN roleLoads
    /\ roleLoads[n].stage = "doc"
    /\ LET load == roleLoads[n]
           role == IF fails THEN "student" ELSE DocRole(load.user)
       IN  /\ userRole' = role
           /\ roleCache' = [roleCache EXCEPT ![load.key] = Cached(role, load.started)]
           /\ roleLoads' = Without(roleLoads, n)
    /\ UNCHANGED <<authUser, signingOut, signedOut, now>>
    /\ UNCHANGED <<collection, attempts, inFlight, lastCall>>
    /\ UNCHANGED <<passages, toasts, quizVars, formVars, parseVars, routerVars>>

\* signOut() up to its await: the uid is taken, signOut(auth) is called
SignOut ==
    /\ ~signingOut.active
    /\ signingOut' = [active |-> TRUE, uid |-> authUser, calledBack |-> FALSE]
    /\ UNCHANGED <<authUser, userRole, roleCache, roleLoads, signedOut, now>>
    /\ UNCHANGED <<collection, attempts, inFlight, lastCall>>
    /\ UNCHANGED <<passages, toasts, quizVars, formVars, parseVars, routerVars>>

\* signOut(auth) settles: after the callback for null has run it resolves and
\* the cache entry of the uid is removed; or it rejects
SignOutSettles(fails) ==
    /\ signingOut.active
    /\ fails \/ signingOut.calledBack
    /\ signingOut' = NoSignOut
    /\ IF ~fails /\ signingOut.uid # NoUser
       THEN /\ roleCache' = [roleCache EXCEPT ![signingOut.uid] = NoEntry]
            /\ signedOut' = signedOut \cup {signingOut.uid}
       ELSE UNCHANGED <<roleCache, signedOut>>
    /\ UNCHANGED <<authUser, userRole, roleLoads, now>>
    /\ UNCHANGED <<collection, attempts, inFlight, lastCall>>
    /\ UNCHANGED <<passages, toasts, quizVars, formVars, parseVars, routerVars>>

\* time passes
RoleAdvance ==
    /\ \E t \in RoleInstants : t > now /\ now' = t
    /\ UNCHANGED <<passages, toasts, quizVars, repoVars, formVars, parseVars, roleVars, routerVars>>

RoleInit ==
    /\ QuizUnopened
    /\ RepoIdle
    /\ FormIdle
    /\ ShellIdle
    /\ passages = {}

RoleNext ==
    \/ \E user \in RoleUsers \cup {NoUser} : AuthCallback(user)
    \/ \E n \in 1..MaxLoads, fails \in BOOLEAN : TokenSettles(n, fails)
    \/ \E n \in 1..MaxLoads, fails \in BOOLEAN : DocSettles(n, fails)
    \/ SignOut
    \/ \E fails \in BOOLEAN : SignOutSettles(fails)
    \/ RoleAdvance

SpecRoles == RoleInit /\ [][RoleNext]_vars

----------------------------------------------------------------------------
(* Router: navigateToPath with its isNavigating flag, the page initialisers *)
(* and the three sources of navigations (links, navigate(), popstate).      *)

\* this.routes
Routes == {"/", "/subjects", "/dashboard", "/admin", "/quiz"}
PartialOf(pathname) ==
    CASE pathname = "/" -> "partials/home.html"
      [] pathname = "/subjects" -> "partials/subjects.html"
      [] pathname = "/dashboard" -> "partials/dashboard.html"
      [] pathname = "/admin" -> "partials/admin.html"
      [] pathname = "/quiz" -> "partials/quiz.html"

\* a path is a key of this.routes (or a case of the switch of initializePage)
\* when it is the pathname alone
IsRoute(path) == path.passage = 0 /\ path.pathname \in Routes

\* this.routes.get(path) || this.routes.get('/')
partialFile(path) == IF IsRoute(path) THEN PartialOf(path.pathname) ELSE PartialOf("/")

\* what loadPartial returns when fetch fails
ErrorPartial == "Page not found"

\* path !== window.location.pathname
OtherPath(path) == ~(path.passage = 0 /\ path.pathname = location.pathname)

\* the links with data-nav, the entries of the history and the paths the
\* page is opened at
LinkTargets == {"/dashboard", "/admin"}
HistoryEntries == {Route("/"), QuizPath(1)}
InitialPaths == {"/subjects", "/admin"}

\* a click on a[data-nav]
ClickLink(href) ==
    /\ href # location.pathname
    /\ requested' = Route(href)
    /\ navigateToPath(Route(href), TRUE)
    /\ UNCHANGED <<currentRoute, mainContent, location, lastInit>>
    /\ UNCHANGED <<passages, now, toasts, quizVars, repoVars, formVars, parseVars, roleVars>>

\* the back or forward button: the browser has moved to an entry of the
\* history, the popstate listener navigates to its pathname
PopState(entry) ==
    /\ entry # location
    /\ location' = entry
    /\ requested' = Route(entry.pathname)
    /\ navigateToPath(Route(entry.pathname), FALSE)
    /\ UNCHANGED <<currentRoute, mainContent, lastInit>>
    /\ UNCHANGED <<passages, now, toasts, quizVars, repoVars, formVars, parseVars, roleVars>>

\* loadPartial settles (fails: fetch fails, the error partial is returned):
\* the content is written into main, the path is pushed, currentRoute is set;
\* initializePage awaits authManager.ready() and the page's module
PartialLoaded(fails) ==
    /\ navigation.stage = "partial"
    /\ mainContent' = IF fails THEN ErrorPartial ELSE partialFile(navigation.path)
    /\ location' = IF navigation.pushState /\ OtherPath(navigation.path)
                   THEN navigation.path ELSE location
    /\ currentRoute' = navigation.path
    /\ navigation' = [navigation EXCEPT !.stage = "init"]
    /\ UNCHANGED <<isNavigating, requested, lastInit>>
    /\ UNCHANGED <<passages, now, toasts, quizVars, repoVars, formVars, parseVars, roleVars>>

\* the initialiser the switch of initializePage runs for a path (fails: the
\* import of the page's module rejects, which the initialiser catches)
pageInit(path, fails) ==
    IF ~IsRoute(path) THEN lastInit
    ELSE CASE path.pathname = "/" -> [module |-> "home", passage |-> 0]
           [] path.pathname = "/subjects" ->
                 IF fails THEN lastInit ELSE [module |-> "subjects", passage |-> 0]
           [] path.pathname = "/dashboard" ->
                 IF ~isAuthenticated THEN [module |-> "auth-modal", passage |-> 0]
                 ELSE IF fails THEN lastInit
                      ELSE [module |-> "dashboard", passage |-> 0]
           [] path.pathname = "/admin" ->
                 IF ~isAdmin \/ fails THEN lastInit
                 ELSE [module |-> "admin", passage |-> 0]
           [] path.pathname = "/quiz" ->
                 IF fails THEN lastInit
                 ELSE [module |-> "quiz", passage |-> location.passage]

\* the rest of navigateToPath: the page's initialiser runs (initAdminPage
\* calls navigateToPath('/dashboard', true) for a user who is no admin), then
\* finally releases the flag
PageInitialised(fails) ==
    /\ navigation.stage = "init"
    /\ lastInit' = pageInit(navigation.path, fails)
    /\ navigation' = IF navigation.path = Route("/admin") /\ ~isAdmin /\ ~isNavigating
                     THEN [path |-> Route("/dashboard"), pushState |-> TRUE,
                           stage |-> "partial"]
                     ELSE NoNavigation
    /\ isNavigating' = FALSE
    /\ UNCHANGED <<currentRoute, mainContent, location, requested>>
    /\ UNCHANGED <<passages, now, toasts, quizVars, repoVars, formVars, parseVars, roleVars>>

\* the page is opened at a path by anybody: the constructor has called
\* handleInitialLoad, which awaits loadPartial; every passage is in the
\* collection
RouterInit ==
    /\ QuizUnopened
    /\ passages = {}
    /\ \E user \in {NoUser, "s1", "admin1"} :
          /\ authUser = user
          /\ userRole = IF user = NoUser THEN NoRole ELSE RoleOf(user)
    /\ collection = {Doc(id, "Biology", TRUE) : id \in DocIds}
    /\ attempts = {}
    /\ inFlight = NoQuery
    /\ lastCall = NoCall
    /\ FormIdle
    /\ ParseIdle
    /\ RoleIdle
    /\ \E pathname \in InitialPaths :
          /\ location = Route(pathname)
          /\ navigation = [path |-> Route(pathname), pushState |-> FALSE,
                           stage |-> "partial"]
          /\ requested = Route(pathname)
    /\ isNavigating = TRUE
    /\ currentRoute = NoRoute
    /\ mainContent = NoContent
    /\ lastInit = NoPageInit

RouterNext ==
    \/ \E href \in LinkTargets : ClickLink(href)
    \/ \E entry \in HistoryEntries : PopState(entry)
    \/ \E id \in DocIds, fails \in BOOLEAN : StartQuiz(id, fails)
    \/ Return
    \/ \E fails \in BOOLEAN : PartialLoaded(fails)
    \/ \E fails \in BOOLEAN : PageInitialised(fails)

SpecRouter == RouterInit /\ [][RouterNext]_vars

----------------------------------------------------------------------------
(* Properties *)

CurrentPassage == Find(passages, currentPassage)

\* r is n/d rounded to the nearest integer, halves up
RoundsTo(n, d, r) == (2 * r - 1) * d <= 2 * n /\ 2 * n < (2 * r + 1) * d

\* the questions answered with the correct option
Hits == {i \in (DOMAIN CurrentPassage.answerIndex) \cap (DOMAIN userAnswers) :
            userAnswers[i] = CurrentPassage.answerIndex[i]}

ScoringStep == scoreCalls' = scoreCalls + 1
AutoSubmitStep == autoSubmits' = autoSubmits + 1
RecordStep == recordCount' = recordCount + 1
Partial == Answered(userAnswers) < NumQuestions(CurrentPassage)

\* a message other than the time-expired warning is shown in this step
ErrorReported == \E i \in (Len(toasts) + 1)..Len(toasts') : toasts'[i] # TimeExpired

\* C1: for N >= 1 questions and any answers map, calculateScore returns
\* percentage = round(100 * (number of questions whose entry in the map equals
\* the correct index) / N), a percentage in [0,100], and a question without an
\* entry is never counted correct.
ThmC1 ==
    scoreCalls = 1 =>
        /\ results.total = NumQuestions(CurrentPassage)
        /\ results.correct = Cardinality(Hits)
        /\ RoundsTo(100 * Cardinality(Hits), NumQuestions(CurrentPassage),
                    results.percentage)
        /\ results.percentage \in 0..100
        /\ \A i \in DOMAIN CurrentPassage.answerIndex :
              i \notin DOMAIN userAnswers => ~results.breakdown[i + 1].isCorrect

WitC1 ==
    /\ scoreCalls = 1
    /\ NumQuestions(CurrentPassage) = 3
    /\ Answered(userAnswers) = 2
    /\ results.correct = 2
    /\ results.percentage = 67

\* C2: once the results are shown, a further submitQuiz has no effect: while
\* the results stay shown no attempt is recorded, the displayed score does not
\* change and no interval is started.
CexC2 ==
    [][(modalShown /\ modalShown') =>
          /\ recordCount' = recordCount
          /\ resultsView'.percentage = resultsView.percentage
          /\ resultsView'.fraction = resultsView.fraction
          /\ (DOMAIN timers') \subseteq (DOMAIN timers)]_vars

\* C3: in one quiz session (since startTime was set) the automatic submission
\* submitQuiz(true) is triggered at most once.
CexC3 == autoSubmits <= 1

\* C4: when the quiz is not Active (results shown, or page left) no countdown
\* interval is running.
CexC4 == (page = "left" \/ modalShown) => DOMAIN timers = {}

ThmC6 ==
    [][ScoringStep =>
          LET r == calculateScore(CurrentPassage, userAnswers, now, startTime)
          IN /\ modalShown'
             /\ resultsView'.percentage = r.percentage
             /\ resultsView'.fraction = <<r.correct, r.total>>
             /\ resultsView'.breakdown = r.breakdown]_vars

WitC6 ==
    /\ saveThrew
    /\ modalShown
    /\ recordCount = 1
    /\ resultsView.percentage = 50
    /\ resultsView.fraction = <<1, 2>>

CexC8 ==
    [][ScoringStep =>
          LET e == resultsView'.timeTaken[1] * SecondsPerMinute
                     + resultsView'.timeTaken[2]
          IN /\ e * MsPerSecond <= now - startTime
             /\ now - startTime < (e + 1) * MsPerSecond
             /\ (AutoSubmitStep => e <= timeLimit)]_vars

\* C9: a manual submitQuiz with fewer answers than questions scores only after
\* the user confirms; an automatic one scores at once without a confirmation;
\* either way unanswered questions are counted wrong.
ThmC9 ==
    [][/\ (pc = "idle" /\ pc' = "confirm") =>
             (Partial /\ ~AutoSubmitStep /\ ~ScoringStep)
       /\ (ScoringStep /\ Partial /\ ~AutoSubmitStep) => pc = "confirm"
       /\ AutoSubmitStep => (ScoringStep /\ pc = "idle" /\ pc' = "idle")
       /\ ScoringStep =>
             /\ results'.correct <= Answered(userAnswers)
             /\ \A i \in DOMAIN CurrentPassage.answerIndex :
                   i \notin DOMAIN userAnswers =>
                      /\ ~results'.breakdown[i + 1].isCorrect
                      /\ results'.breakdown[i + 1].userAnswer = NotAnswered]_vars

WitC9 ==
    /\ modalShown
    /\ autoSubmits = 1
    /\ scoreCalls = 2
    /\ NumQuestions(CurrentPassage) = 2
    /\ DOMAIN userAnswers = {0}
    /\ results.correct = 1
    /\ ~results.breakdown[2].isCorrect

\* C10: selectAnswer while the quiz is not Active changes nothing; while Active
\* it sets the entry of questionIndex and leaves the other entries unchanged.
CexC10 ==
    [][\A q \in 0..(MaxQuestions - 1), o \in OptionInputs :
          SelectAnswer(q, o) =>
             IF modalShown
             THEN UNCHANGED vars
             ELSE /\ userAnswers'[q] = o
                  /\ \A i \in (DOMAIN userAnswers) \ {q} :
                        i \in DOMAIN userAnswers' /\ userAnswers'[i] = userAnswers[i]]_vars

\* C11: retakeQuiz acts only when the quiz is Finished; from Finished it empties
\* the answers map, sets startTime to now, returns the quiz to Active and
\* leaves exactly one countdown interval running.
CexC11 ==
    [][RetakeQuiz =>
          /\ modalShown
          /\ ~modalShown'
          /\ userAnswers' = EmptyMap
          /\ startTime' = now
          /\ Cardinality(DOMAIN timers') = 1]_vars

\* a callback of a live interval runs in this step
TickStep == \E id \in DOMAIN timers, threw \in BOOLEAN : Tick(id, threw)

\* C12: while the quiz stays Active in one session, the seconds written to the
\* timer display never increase and are never negative, also across a declined
\* partial-submit confirmation; a tick at or after timeLimit seconds since
\* startTime writes 0.
CexC12 ==
    [][/\ (/\ timerInterval # 0
           /\ ~modalShown /\ ~modalShown'
           /\ startTime' = startTime) =>
              (timeRemaining' <= timeRemaining /\ timeRemaining' >= 0)
       /\ (TickStep /\ now - startTime >= timeLimit * MsPerSecond) =>
              timeRemaining' = 0]_vars

\* a repository call of one of the operations ops is made in this step
CallStep(ops) == Idle /\ lastCall'.op \in ops

CexC14 ==
    [][CallStep(ReadOps) =>
          /\ ~isAdmin => \A i \in 1..Len(lastCall'.value) :
                            lastCall'.value[i].isPublished
          /\ (/\ lastCall'.op = "getPassages"
              /\ lastCall'.args.publishedOnly = Omitted
              /\ lastCall'.error = NoError) =>
                 lastCall'.value =
                     getDocs([lastCall'.args EXCEPT
                                 !.publishedOnly = IF isAdmin THEN "false"
                                                   ELSE "true"])]_vars

\* the ids of the passages of a listing
IdsOf(listing) == {listing[i].id : i \in 1..Len(listing)}

\* the local store and the remote store hold the same passages
SameStored ==
    {[id |-> p.id, subject |-> p.subject, isPublished |-> p.isPublished] :
        p \in passages}
    = {[id |-> d.id, subject |-> d.subject, isPublished |-> d.isPublished] :
        d \in collection}

\* C16: for the same stored passages, listing subject S with publishedOnly =
\* true gives the same set of passage ids from the remote store (getPassages,
\* server-side filters) and from the local store (loadPassages, client-side
\* filtering).
CexC16 ==
    SameStored =>
        \A s \in Subjects :
            IdsOf(getDocs([NoArgs EXCEPT !.subject = s, !.publishedOnly = "true"]))
            = IdsOf(loadPassages(passages, s, "", "newest"))

\* C15: every attempt getAttemptsForUser returns has userId equal to the
\* identity signed in when the result is delivered, for all options and also
\* when the identity changes while the query is in flight; with nobody signed
\* in the call fails without querying.
CexC15 ==
    [][CallStep({"getAttemptsForUser"}) =>
          /\ \A i \in 1..Len(lastCall'.value) :
                lastCall'.value[i].userId = authUser'
          /\ (inFlight = NoQuery /\ ~isAuthenticated) =>
                (lastCall'.error = AuthRequired /\ lastCall'.backend = <<>>)]_vars

\* the stored draft is an object of the shape collectFormData produces
WellFormed(stored) ==
    /\ stored.kind = "json"
    /\ stored.data # JsonNull
    /\ DOMAIN stored.data = DOMAIN StaticForm
    /\ \A k \in 1..Len(stored.data.questions) : stored.data.questions[k] # JsonNull

\* no autosave timeout is pending
Quiescent == detached = <<>> /\ \A input \in AutosaveInputs : debounce[input] = 0

\* C17: after a burst of input events on the form, each less than 1 second
\* after the one before, exactly one draft write is made once the burst has
\* ended, and the draft then stored is the snapshot of the form as last edited.
CexC17 ==
    (burst.writes >= 0 /\ ~burst.gapped /\ Quiescent) =>
        (burst.writes = 1 /\ draft = saveDraft(form))

\* C18: once savePassage has succeeded the draft slot is empty and stays
\* empty in every later state reached without a further user edit; a
\* savePassage that fails validation changes neither the draft nor the stored
\* passages.
CexC18 ==
    [][/\ savedClean' => draft' = NoDraft
       /\ ((\E random \in RandomSuffixes : SavePassage(random)) /\ validateForm(form) # {})
             => UNCHANGED <<draft, passages>>]_vars

\* C19: loadDraft of a draft written by saveDraft puts back every basic field
\* and, for every question of the snapshot, its text, its four options in
\* order and its marked correct option.
CexC19 ==
    [][(DOMContentLoaded /\ WellFormed(draft)) =>
          /\ \A name \in (DOMAIN StaticForm) \ {"questions"} :
                form'[name] = draft.data[name]
          /\ Len(form'.questions) >= Len(draft.data.questions)
          /\ \A k \in 1..Len(draft.data.questions) :
                /\ form'.questions[k].text = draft.data.questions[k].q
                /\ form'.questions[k].options = draft.data.questions[k].options
                /\ form'.questions[k].checked = draft.data.questions[k].answerIndex]_vars

\* C20: loadDraft with an unparseable or structurally invalid value under the
\* draft key leaves the form as it was before the call and reports nothing,
\* as it does when no draft is stored.
CexC20 ==
    [][(DOMContentLoaded /\ draft # NoDraft /\ ~WellFormed(draft)) =>
          /\ form' = [form EXCEPT !.questions = <<EmptyQuestion>>]
          /\ notice' = notice]_vars

\* C25: at most one countdown interval runs at any time: every interval that
\* was started and is not the one held in timerInterval has been cleared.
CexC25 == \A id \in DOMAIN timers : id = timerInterval

\* C30: the leave-page confirmation is raised exactly when the quiz is Active
\* (started, results not shown) and at least one answer is selected; it is not
\* raised once the quiz is submitted and its results are shown.
CexC30 ==
    page = "ready" =>
        (beforeunload <=> (/\ timerInterval # 0
                           /\ ~modalShown
                           /\ Answered(userAnswers) > 0))

\* the lines of the pasted text and the indexes of its question lines
PastedLinesOf == LinesOf(pasteText)
QuestionLines == {i \in 1..Len(PastedLinesOf) :
                     startsWith(toLowerCase(PastedLinesOf[i]), QuestionPrefix)}

\* the option lines of the block that the question line i opens
OptionLinesOf(i) ==
    LET later == {j \in QuestionLines : j > i}
        last == IF later = {} THEN Len(PastedLinesOf)
                ELSE (CHOOSE j \in later : \A m \in later : j <= m) - 1
    IN  SelectSeq(SubSeq(PastedLinesOf, i + 1, last), OptionLine)

\* the block of question line i has a prompt, exactly four options with a
\* text each and exactly one option carrying the marker
BlockValidates(i) ==
    LET options == OptionLinesOf(i)
        Marked(line) == includes(line, <<Star>>)
    IN  /\ Len(PastedLinesOf[i]) > Len(QuestionPrefix)
        /\ Len(options) = NumOptions
        /\ \A k \in 1..Len(options) :
              \E n \in 3..Len(options[k]) : options[k][n] \notin {" ", Star}
        /\ Len(SelectSeq(options, Marked)) = 1

\* C21: every question parseQuestionText returns has a non-empty prompt,
\* exactly 4 non-empty options and exactly one option marked with '*' in the
\* input; a block failing any of these is absent from the result.
CexC21 ==
    parsed.done =>
        /\ Len(parsed.questions) = Cardinality({i \in QuestionLines : BlockValidates(i)})
        /\ \A k \in 1..Len(parsed.questions) :
              /\ parsed.questions[k].text # <<>>
              /\ Len(parsed.questions[k].options) = NumOptions
              /\ \A i \in 1..Len(parsed.questions[k].options) :
                    parsed.questions[k].options[i] # <<>>

\* C22: a text of k well-formed blocks (a 'Question:' line, then the lines A)
\* to D) with exactly one marked) parses to exactly k questions in input
\* order, each with the position of its marked option as correctIndex and the
\* option texts without the marker.
ThmC22 ==
    (parsed.done /\ pasteText = WellFormedText(pasteBlocks)) =>
        parsed.questions = [k \in 1..Len(pasteBlocks) |->
                               BlockQuestion(pasteBlocks[k].marked, pasteBlocks[k].spaced)]

WitC22 ==
    /\ parsed.done
    /\ Len(pasteBlocks) = 2
    /\ pasteBlocks[1].marked = 0 /\ pasteBlocks[2].marked = 3
    /\ pasteBlocks[1].spaced /\ ~pasteBlocks[2].spaced
    /\ Len(parsed.questions) = 2
    /\ parsed.questions[2].correctIndex = 3

\* C23: loadUserRole takes a role from the cache only while the entry's expiry
\* lies in the future, and once signOut has completed no role cache entry of
\* the signed-out user exists, also when a role load for that user was in
\* flight during the sign-out.
CexC23 ==
    [][/\ \A user \in RoleUsers :
             (AuthCallback(user) /\ roleLoads' = roleLoads)
                 => roleCache[user].expires > now
       /\ \A user \in signedOut' : roleCache'[user] = NoEntry]_vars

\* C26: under every interleaving of auth-state callbacks with the role load,
\* userRole is null whenever currentUser is null, so isAdmin() is true only
\* if a user is signed in.
CexC26 == authUser = NoUser => (userRole = NoRole /\ ~isAdmin)

\* C27: when the role load of the auth-state callback for the current user U
\* ends, userRole and the role cached for U are the role resolved from U's
\* token claim or profile document, whoever was signed in before.
CexC27 ==
    [][\A n \in 1..MaxLoads :
          (/\ TokenSettles(n, FALSE) \/ DocSettles(n, FALSE)
           /\ Len(roleLoads') < Len(roleLoads)
           /\ roleLoads[n].key = authUser)
              => /\ userRole' = ResolvedRole(authUser)
                 /\ roleCache'[authUser].role = ResolvedRole(authUser)]_vars

\* C24: a signed-in user who is no admin never rests on /admin: when no
\* navigation runs, the admin module has not been initialised and neither the
\* current route nor the content is that of /admin.
CexC24 ==
    (~isNavigating /\ isAuthenticated /\ ~isAdmin) =>
        /\ lastInit.module # "admin"
        /\ currentRoute # Route("/admin")
        /\ mainContent # PartialOf("/admin")

\* C28: one navigation runs at a time, the isNavigating flag is set exactly
\* while it runs, and when no navigation runs the current route and the
\* content are those of the path asked for last.
CexC28 ==
    /\ isNavigating <=> navigation # NoNavigation
    /\ (~isNavigating /\ requested # NoRoute) =>
           /\ currentRoute = requested
           /\ mainContent \in {partialFile(requested), ErrorPartial}

\* C29: the navigation to '/quiz?passage=<id>' that startQuiz asks for loads
\* the quiz partial and runs the quiz page initialiser for that passage.
CexC29 ==
    [][\A id \in DocIds :
          (PageInitialised(FALSE) /\ navigation.path = QuizPath(id)
              /\ mainContent # ErrorPartial)
              => /\ mainContent = PartialOf("/quiz")
                 /\ lastInit' = [module |-> "quiz", passage |-> id]]_vars

====
